---- MODULE Spec2Model ----
(***************************************************************************)
(* Central-bank stance tracker: the classifier/source registries and their *)
(* fall-through router, the dual-dimension keyword classifier, and the     *)
(* stance store (seed + persisted merge, backfill, per-date upsert).       *)
(*                                                                         *)
(* Numbers.  Python floats are modelled exactly as rationals: a value is   *)
(* a record [n, d] (d > 0) standing for n/d thousandths.  round(x, 3) is   *)
(* Round3, which yields an integer number of thousandths ("milli").  A     *)
(* stored, rounded score is therefore an integer: 1500 is 1.5.  Binary     *)
(* floating-point error is not modelled.                                   *)
(* Dates.  ISO "YYYY-MM-DD" strings are modelled as the integer YYYYMMDD,  *)
(* whose order is the lexicographic order of the strings the code sorts.   *)
(***************************************************************************)
EXTENDS Integers, Sequences, FiniteSets, TLC

\* ------------------------------------------------------------------------
\* Bounds of the model
\* ------------------------------------------------------------------------
\* registrations made after import, in each registry
MaxRegistry == 2
\* built-in sources kept in the source registry
NumBuiltin == 2
\* entries the persisted file may hold on dates outside the seed data
MaxPersisted == 2

\* ------------------------------------------------------------------------
\* Configuration (defaults.py), scores in thousandths
\* ------------------------------------------------------------------------
HAWKISH_THRESHOLD == 1500
DOVISH_THRESHOLD == -1500
SCORE_MIN == -5000
SCORE_MAX == 5000
\* blend weights in tenths
NEWS_WEIGHT == 7
HISTORICAL_WEIGHT == 3
POLICY_VS_BS_WEIGHT == 7

\* ------------------------------------------------------------------------
\* Exact arithmetic on [n, d] rationals (unit: thousandths)
\* ------------------------------------------------------------------------
Rat(n, d) == [n |-> n, d |-> d]

FromMilli(m) == Rat(m, 1)

Min(a, b) == IF a <= b THEN a ELSE b

Max(a, b) == IF a >= b THEN a ELSE b

\* round(x, 3): nearest thousandth, an exact tie going to the even one
Round3(r) ==
    LET q == r.n \div r.d
        rem == r.n - q * r.d
    IN  IF 2 * rem < r.d THEN q
        ELSE IF 2 * rem > r.d THEN q + 1
        ELSE IF q % 2 = 0 THEN q ELSE q + 1

\* variant: a score on the hawkish threshold is Hawkish
score_label_AtThreshold(r) ==
    IF r.n >= HAWKISH_THRESHOLD * r.d THEN "Hawkish"
    ELSE IF r.n < DOVISH_THRESHOLD * r.d THEN "Dovish"
    ELSE "Neutral"

\* config.score_label: strict comparisons against the two thresholds
score_label(r) ==
    IF r.n > HAWKISH_THRESHOLD * r.d THEN "Hawkish"
    ELSE IF r.n < DOVISH_THRESHOLD * r.d THEN "Dovish"
    ELSE "Neutral"

\* historical_data._score_label: literals 1.5 and -1.5, hawkish test first
hist_score_label(r) ==
    IF r.n > 1500 * r.d THEN "Hawkish"
    ELSE IF r.n < -1500 * r.d THEN "Dovish"
    ELSE "Neutral"

\* max(SCORE_MIN, min(SCORE_MAX, x))
Clamp(r) ==
    IF r.n > SCORE_MAX * r.d THEN FromMilli(SCORE_MAX)
    ELSE IF r.n < SCORE_MIN * r.d THEN FromMilli(SCORE_MIN)
    ELSE r

\* a * x + b * y with a, b in tenths
Blend(a, x, b, y) == Rat(a * x.n * y.d + b * y.n * x.d, 10 * x.d * y.d)

\* ------------------------------------------------------------------------
\* Term dictionaries (stance_classifier.py), weights in tenths
\* ------------------------------------------------------------------------
\* POLICY_HAWKISH_TERMS (stance_classifier.py:26-65)
POLICY_HAWKISH_TERMS ==
    ("raise rates" :> 10) @@ ("rate hike" :> 10) @@ ("rate increase" :> 9) @@
    ("tighten" :> 8) @@ ("tightening" :> 8) @@ ("restrictive" :> 7) @@
    ("sufficiently restrictive" :> 8) @@ ("more restrictive" :> 9) @@ ("higher for longer" :> 9) @@
    ("too high inflation" :> 8) @@ ("inflation persistent" :> 7) @@ ("inflation expectations unanchored" :> 9) @@
    ("price stability" :> 5) @@ ("overheating" :> 7) @@ ("hot economy" :> 6) @@
    ("strong labor market" :> 4) @@ ("wage pressures" :> 6) @@ ("wage growth" :> 4) @@
    ("upside risks to inflation" :> 8) @@ ("not yet done" :> 6) @@ ("more work to do" :> 6) @@
    ("premature" :> 7) @@ ("premature to cut" :> 9) @@ ("too soon to cut" :> 9) @@
    ("patient" :> 4) @@ ("no rush" :> 5) @@ ("no hurry" :> 5) @@
    ("cautious" :> 3) @@ ("vigilant" :> 5) @@ ("demand too strong" :> 6) @@
    ("above target" :> 5) @@ ("sticky inflation" :> 7) @@ ("core inflation elevated" :> 7) @@
    ("inflation not beaten" :> 7) @@ ("further tightening" :> 9) @@ ("additional rate increases" :> 9) @@
    ("bumpy road" :> 4) @@ ("not convinced" :> 5)

\* POLICY_DOVISH_TERMS (stance_classifier.py:67-111)
POLICY_DOVISH_TERMS ==
    ("cut rates" :> 10) @@ ("rate cut" :> 10) @@ ("rate reduction" :> 9) @@
    ("lower rates" :> 8) @@ ("easing" :> 8) @@ ("ease policy" :> 9) @@
    ("accommodative" :> 8) @@ ("more accommodative" :> 9) @@ ("support growth" :> 6) @@
    ("support the economy" :> 6) @@ ("downside risks" :> 7) @@ ("recession risk" :> 8) @@
    ("recession" :> 6) @@ ("slowdown" :> 6) @@ ("economic weakness" :> 7) @@
    ("job losses" :> 7) @@ ("rising unemployment" :> 8) @@ ("unemployment" :> 4) @@
    ("labor market softening" :> 7) @@ ("labor market cooling" :> 6) @@ ("inflation falling" :> 6) @@
    ("inflation declining" :> 6) @@ ("disinflation" :> 7) @@ ("progress on inflation" :> 5) @@
    ("inflation moving down" :> 6) @@ ("inflation heading toward target" :> 6) @@ ("maximum employment" :> 5) @@
    ("full employment" :> 4) @@ ("below target" :> 5) @@ ("not restrictive enough" :> 3) @@
    ("gradual" :> 3) @@ ("appropriate to reduce" :> 8) @@ ("time to cut" :> 9) @@
    ("ready to cut" :> 9) @@ ("case for cutting" :> 8) @@ ("pause tightening" :> 6) @@
    ("stop raising" :> 7) @@ ("overly restrictive" :> 8) @@ ("too restrictive" :> 8) @@
    ("risks becoming too restrictive" :> 7) @@ ("balanced risks" :> 3) @@ ("soft landing" :> 5) @@
    ("achieving soft landing" :> 5)

\* BS_HAWKISH_TERMS (stance_classifier.py:115-129)
BS_HAWKISH_TERMS ==
    ("quantitative tightening" :> 9) @@ ("reduce balance sheet" :> 9) @@ ("shrink balance sheet" :> 8) @@
    ("reducing balance sheet" :> 7) @@ ("balance sheet runoff" :> 7) @@ ("reduce holdings" :> 7) @@
    ("treasury runoff" :> 6) @@ ("mbs runoff" :> 6) @@ ("normalize balance sheet" :> 6) @@
    ("balance sheet normalization" :> 6) @@ ("too large balance sheet" :> 7) @@ ("unwind" :> 5) @@
    ("wind down" :> 5)

\* BS_DOVISH_TERMS (stance_classifier.py:131-147)
BS_DOVISH_TERMS ==
    ("quantitative easing" :> 9) @@ ("expand balance sheet" :> 9) @@ ("asset purchases" :> 8) @@
    ("slow runoff" :> 8) @@ ("taper runoff" :> 8) @@ ("pause runoff" :> 9) @@
    ("slow the pace of runoff" :> 8) @@ ("reinvest" :> 7) @@ ("reinvestment" :> 7) @@
    ("maintain balance sheet" :> 4) @@ ("end qt" :> 9) @@ ("stop qt" :> 9) @@
    ("ample reserves" :> 5) @@ ("reserve scarcity" :> 6) @@ ("repo pressures" :> 5)

\* ------------------------------------------------------------------------
\* Dual-dimension keyword classifier (stance_classifier.py)
\* ------------------------------------------------------------------------
Whitespace == {" ", "\t", "\n"}

UpperToLower ==
    ("A" :> "a") @@ ("B" :> "b") @@ ("C" :> "c") @@ ("D" :> "d") @@
    ("E" :> "e") @@ ("F" :> "f") @@ ("G" :> "g") @@ ("H" :> "h") @@
    ("I" :> "i") @@ ("J" :> "j") @@ ("K" :> "k") @@ ("L" :> "l") @@
    ("M" :> "m") @@ ("N" :> "n") @@ ("O" :> "o") @@ ("P" :> "p") @@
    ("Q" :> "q") @@ ("R" :> "r") @@ ("S" :> "s") @@ ("T" :> "t") @@
    ("U" :> "u") @@ ("V" :> "v") @@ ("W" :> "w") @@ ("X" :> "x") @@
    ("Y" :> "y") @@ ("Z" :> "z")

CharAt(s, i) == SubSeq(s, i, i)

LowerChar(c) == IF c \in DOMAIN UpperToLower THEN UpperToLower[c] ELSE c

IsSpace(s, i) == CharAt(s, i) \in Whitespace

\* str.lower() of the characters lo..hi
RECURSIVE LowerRange(_, _, _)
LowerRange(s, lo, hi) ==
    IF lo > hi THEN ""
    ELSE IF lo = hi THEN LowerChar(CharAt(s, lo))
    ELSE LowerRange(s, lo, (lo + hi) \div 2) \o LowerRange(s, (lo + hi) \div 2 + 1, hi)

Lower(s) == LowerRange(s, 1, Len(s))

\* What character i becomes under re.sub(r"\s+", " ", text.lower().strip()):
\* a whitespace character is dropped unless it opens an inner run of
\* whitespace, which becomes one space.
NormalizedChar(s, i) ==
    IF ~IsSpace(s, i) THEN LowerChar(CharAt(s, i))
    ELSE IF i > 1 /\ ~IsSpace(s, i - 1) /\ (\E j \in (i + 1)..Len(s) : ~IsSpace(s, j))
         THEN " " ELSE ""

RECURSIVE NormalizeRange(_, _, _)
NormalizeRange(s, lo, hi) ==
    IF lo > hi THEN ""
    ELSE IF lo = hi THEN NormalizedChar(s, lo)
    ELSE NormalizeRange(s, lo, (lo + hi) \div 2)
            \o NormalizeRange(s, (lo + hi) \div 2 + 1, hi)

_normalize(text) == NormalizeRange(text, 1, Len(text))

\* code-point order of the characters that occur in dictionary terms
CharCode ==
    (" " :> 32) @@ ("a" :> 97) @@ ("b" :> 98) @@ ("c" :> 99) @@ ("d" :> 100) @@
    ("e" :> 101) @@ ("f" :> 102) @@ ("g" :> 103) @@ ("h" :> 104) @@ ("i" :> 105) @@
    ("j" :> 106) @@ ("k" :> 107) @@ ("l" :> 108) @@ ("m" :> 109) @@ ("n" :> 110) @@
    ("o" :> 111) @@ ("p" :> 112) @@ ("q" :> 113) @@ ("r" :> 114) @@ ("s" :> 115) @@
    ("t" :> 116) @@ ("u" :> 117) @@ ("v" :> 118) @@ ("w" :> 119) @@ ("x" :> 120) @@
    ("y" :> 121) @@ ("z" :> 122)

\* Python's str < str
RECURSIVE StrLess(_, _)
StrLess(a, b) ==
    IF b = "" THEN FALSE
    ELSE IF a = "" THEN TRUE
    ELSE IF CharAt(a, 1) = CharAt(b, 1)
         THEN StrLess(SubSeq(a, 2, Len(a)), SubSeq(b, 2, Len(b)))
         ELSE CharCode[CharAt(a, 1)] < CharCode[CharAt(b, 1)]

\* sorted(set(...)) of strings
RECURSIVE SortedStrings(_)
SortedStrings(S) ==
    IF S = {} THEN <<>>
    ELSE LET m == CHOOSE x \in S : \A y \in S \ {x} : StrLess(x, y)
         IN  <<m>> \o SortedStrings(S \ {m})

Range(seq) == {seq[i] : i \in DOMAIN seq}

\* the positions at which `term` occurs in s
MatchesAt(s, term) ==
    {i \in 1..(Len(s) - Len(term) + 1) : SubSeq(s, i, i + Len(term) - 1) = term}

Least(S) == CHOOSE x \in S : \A y \in S : x <= y

Greatest(S) == CHOOSE x \in S : \A y \in S : y <= x

\* str.find(term, from) on 1-based positions; 0 stands for -1
Find(s, term, i) ==
    IF {p \in MatchesAt(s, term) : p >= i} = {} THEN 0
    ELSE Least({p \in MatchesAt(s, term) : p >= i})

\* str.rfind(" ", 0, limit): last space among the first `limit` characters
RFindSpace(s, limit) ==
    IF {p \in MatchesAt(s, " ") : p <= limit} = {} THEN 0
    ELSE Greatest({p \in MatchesAt(s, " ") : p <= limit})

\* str.strip()
Strip(s) ==
    IF \A i \in 1..Len(s) : IsSpace(s, i) THEN ""
    ELSE SubSeq(s, Least({i \in 1..Len(s) : ~IsSpace(s, i)}),
                   Greatest({i \in 1..Len(s) : ~IsSpace(s, i)}))

\* str.count(term): non-overlapping occurrences, scanning left to right;
\* `positions` are the occurrences of the term, `width` its length
RECURSIVE CountFrom(_, _, _)
CountFrom(positions, width, i) ==
    IF {p \in positions : p >= i} = {} THEN 0
    ELSE 1 + CountFrom(positions, width, Least({p \in positions : p >= i}) + width)

Count(s, term) == CountFrom(MatchesAt(s, term), Len(term), 1)

\* sum of weight * count over the terms of `todo`
RECURSIVE WeightedCount(_, _, _)
WeightedCount(normalized, terms, todo) ==
    IF todo = {} THEN 0
    ELSE LET t == CHOOSE x \in todo : TRUE
         IN  terms[t] * Count(normalized, Lower(t))
                + WeightedCount(normalized, terms, todo \ {t})

Matches(normalized, terms) ==
    {t \in DOMAIN terms : Count(normalized, Lower(t)) > 0}

\* _score_dimension: raw score as a rational (thousandths), confidence in
\* fiftieths capped at 50 (min(total / 5.0, 1.0) with total in tenths)
_score_dimension(normalized, hawkish_terms, dovish_terms) ==
    LET Scored(hawkish_score, dovish_score) ==
            LET total == hawkish_score + dovish_score
            IN  IF total = 0
                THEN [raw |-> FromMilli(0), conf |-> 0, hawk |-> {}, dove |-> {}]
                ELSE [raw |-> Rat(5000 * (hawkish_score - dovish_score), total),
                      conf |-> Min(total, 50),
                      hawk |-> Matches(normalized, hawkish_terms),
                      dove |-> Matches(normalized, dovish_terms)]
    \* the terms that do not occur add nothing to the sums
    IN  Scored(WeightedCount(normalized, hawkish_terms, Matches(normalized, hawkish_terms)),
               WeightedCount(normalized, dovish_terms, Matches(normalized, dovish_terms)))

ClassificationResult(score, label, confidence, hawk, dove, count, ps, pl, bs, bl) ==
    [score |-> score, label |-> label, confidence |-> confidence,
     hawkish_matches |-> hawk, dovish_matches |-> dove, snippet_count |-> count,
     policy_score |-> ps, policy_label |-> pl,
     balance_sheet_score |-> bs, balance_sheet_label |-> bl]

\* variant: the result counts one snippet whatever was passed
NeutralResult_CountsOne(count) ==
    ClassificationResult(0, "Neutral", 0, <<>>, <<>>, 1, 0, "Neutral", 0, "Neutral")

\* the dataclass defaults of the dual-dimension fields
NeutralResult(count) ==
    ClassificationResult(0, "Neutral", 0, <<>>, <<>>, count, 0, "Neutral", 0, "Neutral")

classify_text_keyword(text) ==
    LET normalized == _normalize(text)
        \* p, b: the policy and the balance-sheet dimension
        Combined(p, b) ==
            LET overall_score ==
                    IF b.conf = 0 THEN p.raw
                    ELSE Blend(POLICY_VS_BS_WEIGHT, p.raw, 10 - POLICY_VS_BS_WEIGHT, b.raw)
                \* confidences in thousandths: fiftieths * 20
                overall_conf == IF b.conf > 0 THEN Min(10 * (p.conf + b.conf), 1000)
                                ELSE Min(20 * p.conf, 1000)
            IN  IF p.conf + b.conf = 0 THEN NeutralResult(1)
                ELSE ClassificationResult(
                        Round3(overall_score), score_label(overall_score), overall_conf,
                        SortedStrings(p.hawk \cup b.hawk),
                        SortedStrings(p.dove \cup b.dove), 1,
                        Round3(p.raw), score_label(p.raw),
                        Round3(b.raw), score_label(b.raw))
    IN  Combined(_score_dimension(normalized, POLICY_HAWKISH_TERMS, POLICY_DOVISH_TERMS),
                 _score_dimension(normalized, BS_HAWKISH_TERMS, BS_DOVISH_TERMS))

QUOTE_CONTEXT_CHARS == 120

\* extract_quote with 0-based start/end as in the source
extract_quote(text, term) ==
    LET pos == Find(Lower(text), Lower(term), 1)
        idx == pos - 1
        start0 == Max(0, idx - QUOTE_CONTEXT_CHARS \div 2)
        end0 == Min(Len(text), idx + Len(term) + QUOTE_CONTEXT_CHARS \div 2)
        sp1 == RFindSpace(text, start0)
        start == IF start0 > 0 /\ sp1 # 0 THEN sp1 ELSE start0
        sp2 == Find(text, " ", end0 + 1)
        end == IF end0 < Len(text) /\ sp2 # 0 THEN sp2 - 1 ELSE end0
    IN  IF pos = 0 THEN ""
        ELSE (IF start > 0 THEN "..." ELSE "")
                \o Strip(SubSeq(text, start + 1, end))
                \o (IF end < Len(text) THEN "..." ELSE "")

_keyword_dimension(term) ==
    IF \/ Lower(term) \in {Lower(t) : t \in DOMAIN BS_HAWKISH_TERMS}
       \/ Lower(term) \in {Lower(t) : t \in DOMAIN BS_DOVISH_TERMS}
    THEN "balance_sheet" ELSE "policy"

RECURSIVE EvidenceFor(_, _, _)
EvidenceFor(text, kws, direction) ==
    IF kws = <<>> THEN <<>>
    ELSE LET quote == extract_quote(text, Head(kws))
             item == [keyword |-> Head(kws), direction |-> direction,
                      dimension |-> _keyword_dimension(Head(kws)), quote |-> quote]
         IN  (IF quote # "" THEN <<item>> ELSE <<>>)
                \o EvidenceFor(text, Tail(kws), direction)

classify_text_with_evidence_keyword(text) ==
    LET WithEvidence(result) ==
            <<result, EvidenceFor(text, result.hawkish_matches, "hawkish")
                        \o EvidenceFor(text, result.dovish_matches, "dovish")>>
    IN  WithEvidence(classify_text_keyword(text))

RECURSIVE Sum(_)
Sum(seq) == IF seq = <<>> THEN 0 ELSE Head(seq) + Sum(Tail(seq))

\* the aggregation of classify_snippets_keyword over the per-snippet results
AggregateSnippets(results) ==
    LET total_conf == Sum([i \in DOMAIN results |-> results[i].confidence])
        score_sum == Sum([i \in DOMAIN results |-> results[i].score * results[i].confidence])
        policy_sum == Sum([i \in DOMAIN results |->
                            results[i].policy_score * results[i].confidence])
        bs_sum == Sum([i \in DOMAIN results |->
                        results[i].balance_sheet_score * results[i].confidence])
        avg_score == IF total_conf = 0 THEN FromMilli(0)
                     ELSE Rat(score_sum, total_conf)
        avg_policy == IF total_conf = 0 THEN FromMilli(0)
                      ELSE Rat(policy_sum, total_conf)
        avg_bs == IF total_conf = 0 THEN FromMilli(0)
                  ELSE Rat(bs_sum, total_conf)
        avg_conf == Rat(total_conf, Len(results))
        all_hawkish == UNION {Range(results[i].hawkish_matches) : i \in DOMAIN results}
        all_dovish == UNION {Range(results[i].dovish_matches) : i \in DOMAIN results}
    IN  ClassificationResult(
            Round3(avg_score), score_label(avg_score),
            Round3(IF avg_conf.n > 1000 * avg_conf.d THEN FromMilli(1000) ELSE avg_conf),
            SortedStrings(all_hawkish), SortedStrings(all_dovish), Len(results),
            Round3(avg_policy), score_label(avg_policy),
            Round3(avg_bs), score_label(avg_bs))

\* results = [classify_text_keyword(s) for s in snippets] is computed once
\* and then aggregated
classify_snippets_keyword(snippets) ==
    IF snippets = <<>> THEN NeutralResult(0)
    ELSE CHOOSE r \in {AggregateSnippets(results) : results \in
                        {[i \in DOMAIN snippets |-> classify_text_keyword(snippets[i])]}} :
            TRUE

\* ------------------------------------------------------------------------
\* Classifier backend registry (stance_classifier.py) and data source
\* registry (news_fetcher.py).  An entry is (name, callables, enabled); the
\* callables of an entry are identified by `fn`.
\* ------------------------------------------------------------------------
Entry(name, fn, enabled) == [name |-> name, fn |-> fn, enabled |-> enabled]

\* index of the first entry called `name`, 0 when the loop finds none
FirstNamed(reg, name) ==
    IF \E i \in DOMAIN reg : reg[i].name = name
    THEN CHOOSE i \in DOMAIN reg :
            reg[i].name = name /\ \A j \in 1..(i - 1) : reg[j].name # name
    ELSE 0

\* variant: an unknown name is ignored without an error
SetFlag_SilentOnUnknown(reg, name, flag) ==
    LET i == FirstNamed(reg, name)
    IN  IF i = 0 THEN [raised |-> "none", reg |-> reg]
        ELSE [raised |-> "none",
              reg |-> [reg EXCEPT ![i] = Entry(reg[i].name, reg[i].fn, flag)]]

\* the loop of enable_* / disable_*: the first entry called `name` gets the
\* flag; KeyError when the loop ends without a match
SetFlag(reg, name, flag) ==
    LET i == FirstNamed(reg, name)
    IN  IF i = 0 THEN [raised |-> "KeyError", reg |-> reg]
        ELSE [raised |-> "none",
              reg |-> [reg EXCEPT ![i] = Entry(reg[i].name, reg[i].fn, flag)]]

\* variant: the new entry goes to the front of the registry
register_classifier_Prepends(reg, name, fn, enabled) ==
    <<Entry(name, fn, enabled)>> \o reg

register_classifier(reg, name, fn, enabled) == Append(reg, Entry(name, fn, enabled))

list_classifiers(reg) == [i \in DOMAIN reg |-> <<reg[i].name, reg[i].enabled>>]

enable_classifier(reg, name) == SetFlag(reg, name, TRUE)

disable_classifier(reg, name) == SetFlag(reg, name, FALSE)

register_source(reg, name, fn, enabled) == Append(reg, Entry(name, fn, enabled))

list_sources(reg) == [i \in DOMAIN reg |-> <<reg[i].name, reg[i].enabled>>]

enable_source(reg, name) == SetFlag(reg, name, TRUE)

disable_source(reg, name) == SetFlag(reg, name, FALSE)

\* ------------------------------------------------------------------------
\* Router (stance_classifier.py: classify_text, classify_text_with_evidence,
\* classify_snippets).  A backend is a registered plugin, one of the three
\* environment-gated LLM backends, or the keyword classifier.  `raises` is
\* the set of backends whose call raises an Exception during this routing
\* call; any other backend returns its value.
\* ------------------------------------------------------------------------
Backend(kind, fn) == [kind |-> kind, fn |-> fn]

KeywordBackend == Backend("keyword", 0)

\* variant: Gemini is tried before Cerebras
LLM_CHAIN_GeminiFirst ==
    <<[kind |-> "gemini", key |-> "GEMINI_API_KEY"],
      [kind |-> "cerebras", key |-> "CEREBRAS_API_KEY"],
      [kind |-> "openai", key |-> "OPENAI_API_KEY"]>>

\* (backend, environment variable that gates it), in the order of the code
LLM_CHAIN ==
    <<[kind |-> "cerebras", key |-> "CEREBRAS_API_KEY"],
      [kind |-> "gemini", key |-> "GEMINI_API_KEY"],
      [kind |-> "openai", key |-> "OPENAI_API_KEY"]>>

\* _cerebras_available / _gemini_available / _openai_available
Available(environ, key) == key \in environ

\* what a plugin or LLM backend returns: a ClassificationResult of its own,
\* told apart from every other result by the backend, the operation and the
\* input it came from; the model gives all of them the same scores
BackendValue(b, op, input) ==
    LET v == [backend |-> b, op |-> op, input |-> input]
                @@ ClassificationResult(-2500, "Dovish", 800, <<>>, <<>>, 1,
                                        -2500, "Dovish", 0, "Neutral")
    IN  IF op = "classify_text_with_evidence" THEN <<v, <<>>>> ELSE v

\* the inputs of the model's routing calls
Texts == {"Rate cut is coming", "Higher for longer,  but QE resumes"}

SnippetLists == {<<>>, <<"Rate cut is coming", "wind down the balance sheet">>}

\* the texts of the news items that the pipeline classifies
PipelineTexts ==
    {"Logan stays vigilant A rate hike is not premature despite recession talk and disinflation",
     "Remarks rate cut", "Interview higher for longer"}

\* the keyword classifier on those inputs, evaluated once
KeywordText == [t \in Texts \cup PipelineTexts |-> classify_text_keyword(t)]

KeywordTextWithEvidence ==
    [t \in Texts \cup PipelineTexts |-> classify_text_with_evidence_keyword(t)]

KeywordSnippets ==
    [s \in SnippetLists \cup {<<t>> : t \in PipelineTexts} |-> classify_snippets_keyword(s)]

KeywordValue(op, input) ==
    IF op = "classify_text" THEN KeywordText[input]
    ELSE IF op = "classify_text_with_evidence" THEN KeywordTextWithEvidence[input]
    ELSE KeywordSnippets[input]

Returned(b, v) == [status |-> "returned", value |-> v, invoked |-> <<b>>]

Exhausted == [status |-> "exhausted", value |-> "none", invoked |-> <<>>]

Propagated(b) == [status |-> "raised", value |-> "none", invoked |-> <<b>>]

After(b, rest) == [rest EXCEPT !.invoked = <<b>> \o @]

\* variant: no try/except around the plugin call
RECURSIVE PluginLoop_Propagates(_, _, _, _, _)
PluginLoop_Propagates(op, reg, i, raises, input) ==
    IF i > Len(reg) THEN Exhausted
    ELSE IF ~reg[i].enabled THEN PluginLoop_Propagates(op, reg, i + 1, raises, input)
    ELSE LET b == Backend("plugin", reg[i].fn)
         IN  IF b \notin raises THEN Returned(b, BackendValue(b, op, input))
             ELSE Propagated(b)

\* variant: the result of a later working entry replaces an earlier one
RECURSIVE PluginLoop_LastWins(_, _, _, _, _)
PluginLoop_LastWins(op, reg, i, raises, input) ==
    IF i > Len(reg) THEN Exhausted
    ELSE IF ~reg[i].enabled THEN PluginLoop_LastWins(op, reg, i + 1, raises, input)
    ELSE LET b == Backend("plugin", reg[i].fn)
             rest == PluginLoop_LastWins(op, reg, i + 1, raises, input)
         IN  IF b \in raises \/ rest.status = "returned" THEN After(b, rest)
             ELSE Returned(b, BackendValue(b, op, input))

\* variant: the enabled flag is not consulted
RECURSIVE PluginLoop_IgnoresFlag(_, _, _, _, _)
PluginLoop_IgnoresFlag(op, reg, i, raises, input) ==
    IF i > Len(reg) THEN Exhausted
    ELSE LET b == Backend("plugin", reg[i].fn)
         IN  IF b \notin raises THEN Returned(b, BackendValue(b, op, input))
             ELSE After(b, PluginLoop_IgnoresFlag(op, reg, i + 1, raises, input))

\* for name, fn, enabled in _CLASSIFIERS: skip disabled, try fn, log and
\* continue on Exception
RECURSIVE PluginLoop(_, _, _, _, _)
PluginLoop(op, reg, i, raises, input) ==
    IF i > Len(reg) THEN Exhausted
    ELSE IF ~reg[i].enabled THEN PluginLoop(op, reg, i + 1, raises, input)
    ELSE LET b == Backend("plugin", reg[i].fn)
         IN  IF b \notin raises THEN Returned(b, BackendValue(b, op, input))
             ELSE After(b, PluginLoop(op, reg, i + 1, raises, input))

\* if _x_available(): try: return classify_x(...) except Exception: log
RECURSIVE LLMChain(_, _, _, _, _)
LLMChain(op, environ, k, raises, input) ==
    IF k > Len(LLM_CHAIN) THEN Exhausted
    ELSE IF ~Available(environ, LLM_CHAIN[k].key)
         THEN LLMChain(op, environ, k + 1, raises, input)
    ELSE LET b == Backend(LLM_CHAIN[k].kind, 0)
         IN  IF b \notin raises THEN Returned(b, BackendValue(b, op, input))
             ELSE After(b, LLMChain(op, environ, k + 1, raises, input))

Route(op, reg, environ, raises, input) ==
    LET p == PluginLoop(op, reg, 1, raises, input)
        l == LLMChain(op, environ, 1, raises, input)
    IN  IF p.status # "exhausted" THEN p
        ELSE IF l.status # "exhausted"
             THEN [l EXCEPT !.invoked = p.invoked \o @]
             ELSE [Returned(KeywordBackend, KeywordValue(op, input))
                      EXCEPT !.invoked = p.invoked \o l.invoked \o @]

classify_text(reg, environ, raises, text) ==
    Route("classify_text", reg, environ, raises, text)

classify_text_with_evidence(reg, environ, raises, text) ==
    Route("classify_text_with_evidence", reg, environ, raises, text)

classify_snippets(reg, environ, raises, snippets) ==
    Route("classify_snippets", reg, environ, raises, snippets)

\* ------------------------------------------------------------------------
\* Source fetcher (news_fetcher.py: fetch_news_for_participant)
\* ------------------------------------------------------------------------
\* the register_source calls at the end of news_fetcher.py
ALL_BUILTIN_SOURCES ==
    <<Entry("duckduckgo", 1, TRUE), Entry("fed_rss", 2, TRUE),
      Entry("bis_speeches", 3, TRUE), Entry("fed_speeches", 4, TRUE),
      Entry("fomc_minutes", 5, TRUE), Entry("regional_fed_blogs", 6, TRUE)>>

\* the model keeps the first NumBuiltin of them
BUILTIN_SOURCES == SubSeq(ALL_BUILTIN_SOURCES, 1, Min(NumBuiltin, Len(ALL_BUILTIN_SOURCES)))

NewsItem(source, title, body, url, date) ==
    [source |-> source, title |-> title, body |-> body, url |-> url, date |-> date]

\* What a source callable returns when it does not raise.  Every built-in
\* source finds the same page; a source registered later returns an item
\* without a URL.
SourceValue(fn, participant) ==
    IF fn <= Len(BUILTIN_SOURCES)
    THEN <<NewsItem(BUILTIN_SOURCES[fn].name, "Remarks", "rate cut",
                    "https://www.federalreserve.gov/speech", "2026-02-16")>>
    ELSE <<NewsItem("custom", "Interview", "higher for longer", "", "2026-02-16")>>

\* for name, fn, enabled in _SOURCES: skip disabled, try fn and extend
\* all_results, log and continue on Exception
RECURSIVE SourceLoop(_, _, _, _)
SourceLoop(reg, i, raises, participant) ==
    IF i > Len(reg) THEN [status |-> "completed", results |-> <<>>, invoked |-> <<>>]
    ELSE IF ~reg[i].enabled THEN SourceLoop(reg, i + 1, raises, participant)
    ELSE LET rest == SourceLoop(reg, i + 1, raises, participant)
             got == IF reg[i].fn \in raises THEN <<>>
                    ELSE SourceValue(reg[i].fn, participant)
         IN  [rest EXCEPT !.results = got \o @, !.invoked = <<reg[i].fn>> \o @]

\* deduplicate by URL; items with an empty URL are always kept
RECURSIVE Dedupe(_, _)
Dedupe(items, seen_urls) ==
    IF items = <<>> THEN <<>>
    ELSE LET r == Head(items)
         IN  IF r.url # "" /\ r.url \in seen_urls THEN Dedupe(Tail(items), seen_urls)
             ELSE <<r>> \o Dedupe(Tail(items),
                                  IF r.url # "" THEN seen_urls \cup {r.url} ELSE seen_urls)

\* returns the deduplicated results, which are also what it saves to the
\* day's news file of the participant
fetch_news_for_participant(reg, raises, participant) ==
    LET loop == SourceLoop(reg, 1, raises, participant)
    IN  IF loop.status = "raised"
        THEN [status |-> "raised", value |-> <<>>, invoked |-> loop.invoked]
        ELSE [status |-> "returned", value |-> Dedupe(loop.results, {}),
              invoked |-> loop.invoked]

\* ------------------------------------------------------------------------
\* Stance store (historical_data.py).  An entry is a dict: a function from
\* the keys it has to their values; scores are stored in thousandths.
\* ------------------------------------------------------------------------
SeedEntry(date, score, label, ps, pl, bs, bl) ==
    [date |-> date, score |-> score, label |-> label, source |-> "seed",
     policy_score |-> ps, policy_label |-> pl,
     balance_sheet_score |-> bs, balance_sheet_label |-> bl]

\* SEED_DATA, restricted to one participant and the two latest seed dates
SEED_DATA ==
    [name \in {"Lorie K. Logan"} |->
        <<SeedEntry(20251215, 1750, "Hawkish", 2250, "Hawkish", -1500, "Neutral"),
          SeedEntry(20260115, 2000, "Hawkish", 2250, "Hawkish", -1250, "Neutral")>>]

\* The persisted file: absent, or a JSON object name -> list of entries.
\* json.dump followed by json.load returns the dicts, lists, strings and
\* numbers of the model unchanged, so the file holds the value itself.
NoFile == [exists |-> FALSE, data |-> <<>>]

FileOf(history) == [exists |-> TRUE, data |-> history]

None == [none |-> TRUE]

\* an optional value that is not None
Some(v) == [none |-> FALSE, value |-> v]

\* variant: the policy fields are always derived from the score
_backfill_entry_Overwrites(entry) ==
    LET e1 == LET ps == IF "score" \in DOMAIN entry THEN entry.score ELSE 0
              IN  [policy_score |-> ps,
                   policy_label |-> hist_score_label(FromMilli(ps))] @@ entry
    IN  IF "balance_sheet_score" \notin DOMAIN e1
        THEN [balance_sheet_score |-> 0, balance_sheet_label |-> "Neutral"] @@ e1
        ELSE e1

_backfill_entry(entry) ==
    LET e1 == IF "policy_score" \notin DOMAIN entry
              THEN LET ps == IF "score" \in DOMAIN entry THEN entry.score ELSE 0
                   IN  [policy_score |-> ps,
                        policy_label |-> hist_score_label(FromMilli(ps))] @@ entry
              ELSE entry
    IN  IF "balance_sheet_score" \notin DOMAIN e1
        THEN [balance_sheet_score |-> 0, balance_sheet_label |-> "Neutral"] @@ e1
        ELSE e1

\* list.sort(key=lambda e: e["date"]): stable
RECURSIVE InsertByDate(_, _)
InsertByDate(sorted, e) ==
    IF sorted = <<>> THEN <<e>>
    ELSE IF Head(sorted).date <= e.date THEN <<Head(sorted)>> \o InsertByDate(Tail(sorted), e)
    ELSE <<e>> \o sorted

\* variant: the list is left in insertion order
SortByDate_Unsorted(entries) == entries

RECURSIVE SortByDate(_)
SortByDate(entries) ==
    IF entries = <<>> THEN <<>>
    ELSE InsertByDate(SortByDate(SubSeq(entries, 1, Len(entries) - 1)),
                      entries[Len(entries)])

DatesOf(entries) == {entries[i].date : i \in DOMAIN entries}

\* variant: every persisted entry is appended
NotIn_KeepsAll(entries, existing_dates) == entries

\* the persisted entries whose date is not already in the seed list
RECURSIVE NotIn(_, _)
NotIn(entries, existing_dates) ==
    IF entries = <<>> THEN <<>>
    ELSE (IF Head(entries).date \notin existing_dates THEN <<Head(entries)>> ELSE <<>>)
            \o NotIn(Tail(entries), existing_dates)

load_history(file) ==
    LET persisted == IF file.exists THEN file.data ELSE <<>>
        seeded(name) == IF name \in DOMAIN SEED_DATA THEN SEED_DATA[name] ELSE <<>>
        merged(name) ==
            IF name \in DOMAIN persisted
            THEN seeded(name) \o NotIn(persisted[name], DatesOf(seeded(name)))
            ELSE seeded(name)
        Backfilled(entries) == [i \in DOMAIN entries |-> _backfill_entry(entries[i])]
    IN  [name \in DOMAIN SEED_DATA \cup DOMAIN persisted |->
            SortByDate(Backfilled(merged(name)))]

save_history(history) == FileOf(history)

Given(args, key) == key \in DOMAIN args

\* index of the entry dated `date` as found by the dict comprehension
\* {e["date"]: i for i, e in enumerate(...)}: the last one; 0 when absent
IndexOfDate(entries, date) ==
    IF date \in DatesOf(entries)
    THEN CHOOSE i \in DOMAIN entries :
            entries[i].date = date /\ \A j \in DOMAIN entries : entries[j].date = date => j <= i
    ELSE 0

\* variant: the entry is appended whether or not its date is present
Upsert_AlwaysAppends(entries, entry) == SortByDate(Append(entries, entry))

\* variant: the participant's list is replaced by the new entry
Upsert_Truncates(entries, entry) == <<entry>>

\* if date in existing_dates: replace in place, else append and sort
Upsert(entries, entry) ==
    IF IndexOfDate(entries, entry.date) # 0
    THEN [entries EXCEPT ![IndexOfDate(entries, entry.date)] = entry]
    ELSE SortByDate(Append(entries, entry))

\* add_stance from `history = load_history()` on (lines 339-374), `loaded`
\* being that history.
\* args: the keyword arguments given (score and label always; date, source,
\* evidence, policy_score, policy_label, balance_sheet_score and
\* balance_sheet_label when passed); scores are rationals
add_stance_after_load(loaded, today, name, args) ==
    LET policy_score == IF Given(args, "policy_score") THEN args.policy_score ELSE args.score
        balance_sheet_score == IF Given(args, "balance_sheet_score")
                               THEN args.balance_sheet_score ELSE FromMilli(0)
        base == [date |-> IF Given(args, "date") THEN args.date ELSE today,
                 score |-> Round3(args.score), label |-> args.label,
                 source |-> IF Given(args, "source") THEN args.source ELSE "live",
                 policy_score |-> Round3(policy_score),
                 policy_label |-> IF Given(args, "policy_label") THEN args.policy_label
                                  ELSE hist_score_label(policy_score),
                 balance_sheet_score |-> Round3(balance_sheet_score),
                 balance_sheet_label |-> IF Given(args, "balance_sheet_label")
                                         THEN args.balance_sheet_label
                                         ELSE hist_score_label(balance_sheet_score)]
        entry == IF Given(args, "evidence") /\ args.evidence # <<>>
                 THEN [evidence |-> args.evidence] @@ base ELSE base
        \* history: the loaded history, with history[name] = [] for a new name
        Stored(history) ==
            [entry |-> entry, history |-> history, file |-> save_history(history)]
    IN  Stored([n \in DOMAIN loaded \cup {name} |->
                    IF n # name THEN loaded[n]
                    ELSE Upsert(IF name \in DOMAIN loaded THEN loaded[name] ELSE <<>>,
                                entry)])

\* add_stance: history = load_history(), then the body above
add_stance(file, today, name, args) ==
    add_stance_after_load(load_history(file), today, name, args)

get_latest_stance(file, name) ==
    LET Latest(entries) ==
            IF entries = <<>> THEN None ELSE _backfill_entry(entries[Len(entries)])
        Get(history) == Latest(IF name \in DOMAIN history THEN history[name] ELSE <<>>)
    IN  Get(load_history(file))

\* ------------------------------------------------------------------------
\* Pipeline (fetch_data.py: process_participant)
\* ------------------------------------------------------------------------
MAX_EVIDENCE_ITEMS == 8

\* a roster entry of participants.py; leans in thousandths
Participant(name, historical_lean, historical_balance_sheet_lean) ==
    [name |-> name, historical_lean |-> historical_lean,
     historical_balance_sheet_lean |-> historical_balance_sheet_lean]

\* PARTICIPANTS, restricted to the participant of SEED_DATA
PARTICIPANTS == {Participant("Lorie K. Logan", 2000, -1000)}

\* f"{r.get('title', '')} {r.get('body', '')}".strip()
TextOf(r) == Strip(r.title \o " " \o r.body)

RECURSIVE SnippetsOf(_)
SnippetsOf(results) ==
    IF results = <<>> THEN <<>>
    ELSE (IF TextOf(Head(results)) # "" THEN <<TextOf(Head(results))>> ELSE <<>>)
            \o SnippetsOf(Tail(results))

\* the evidence entry of one news item, given the (result, item_evidence)
\* pair that classify_text_with_evidence returned for its text
EvidenceItem(r, classified) ==
    [title |-> r.title, url |-> r.url, source_type |-> r.source,
     keywords |-> [i \in DOMAIN classified[2] |-> classified[2][i].keyword],
     directions |-> [i \in DOMAIN classified[2] |-> classified[2][i].direction],
     dimensions |-> [i \in DOMAIN classified[2] |-> classified[2][i].dimension],
     quote |-> classified[2][1].quote,
     score |-> classified[1].score]

Abs(x) == IF x < 0 THEN -x ELSE x

\* evidence.sort(key=lambda e: abs(e.get("score", 0)), reverse=True): stable
RECURSIVE InsertByAbsScore(_, _)
InsertByAbsScore(sorted, e) ==
    IF sorted = <<>> THEN <<e>>
    ELSE IF Abs(Head(sorted).score) >= Abs(e.score)
         THEN <<Head(sorted)>> \o InsertByAbsScore(Tail(sorted), e)
         ELSE <<e>> \o sorted

RECURSIVE SortByAbsScore(_)
SortByAbsScore(evidence) ==
    IF evidence = <<>> THEN <<>>
    ELSE InsertByAbsScore(SortByAbsScore(SubSeq(evidence, 1, Len(evidence) - 1)),
                          evidence[Len(evidence)])

\* the loop that builds the evidence list, before it is sorted and cut
RECURSIVE EvidenceOf(_, _, _, _)
EvidenceOf(results, reg, env, raises) ==
    IF results = <<>> THEN <<>>
    ELSE LET r == Head(results)
             Item(classified) ==
                IF classified[2] = <<>> THEN <<>> ELSE <<EvidenceItem(r, classified)>>
         IN  (IF TextOf(r) = "" THEN <<>>
              ELSE Item(classify_text_with_evidence(reg, env, raises, TextOf(r)).value))
                \o EvidenceOf(Tail(results), reg, env, raises)

\* the add_stance arguments of the two "historical_lean" branches
LeanArgs(participant) ==
    LET policy_score == FromMilli(participant.historical_lean)
        bs_score == FromMilli(participant.historical_balance_sheet_lean)
        overall_score == Clamp(Blend(POLICY_VS_BS_WEIGHT, policy_score,
                                     10 - POLICY_VS_BS_WEIGHT, bs_score))
    IN  [score |-> overall_score, label |-> score_label(overall_score),
         source |-> "historical_lean",
         policy_score |-> policy_score, policy_label |-> score_label(policy_score),
         balance_sheet_score |-> bs_score, balance_sheet_label |-> score_label(bs_score)]

\* the add_stance arguments of the classified branch: each dimension blended
\* with the participant's lean and clamped, labels taken from the blended
\* scores
LiveArgs(participant, result, evidence) ==
    LET blended_policy ==
            Clamp(Blend(NEWS_WEIGHT, FromMilli(result.policy_score),
                        HISTORICAL_WEIGHT, FromMilli(participant.historical_lean)))
        blended_bs ==
            Clamp(Blend(NEWS_WEIGHT, FromMilli(result.balance_sheet_score),
                        HISTORICAL_WEIGHT,
                        FromMilli(participant.historical_balance_sheet_lean)))
        blended_score == Clamp(Blend(POLICY_VS_BS_WEIGHT, blended_policy,
                                     10 - POLICY_VS_BS_WEIGHT, blended_bs))
    IN  [score |-> blended_score, label |-> score_label(blended_score),
         source |-> "live", evidence |-> evidence,
         policy_score |-> blended_policy, policy_label |-> score_label(blended_policy),
         balance_sheet_score |-> blended_bs, balance_sheet_label |-> score_label(blended_bs)]

\* load_cached_news: the results of today's file of the participant, or None
load_cached_news(news_dir, today, participant) ==
    IF <<today, participant.name>> \in DOMAIN news_dir
    THEN [none |-> FALSE, results |-> news_dir[<<today, participant.name>>]]
    ELSE None

\* variant: only an empty result list takes the historical-lean branch
StanceArgs_IgnoresBlankText(participant, results, reg, env, raises) ==
    IF results = <<>> THEN LeanArgs(participant)
    ELSE LiveArgs(participant,
                  classify_snippets(reg, env, raises, SnippetsOf(results)).value,
                  SubSeq(SortByAbsScore(EvidenceOf(results, reg, env, raises)),
                         1, Min(MAX_EVIDENCE_ITEMS,
                                Len(EvidenceOf(results, reg, env, raises)))))

\* the arguments process_participant passes to add_stance for `results`
StanceArgs(participant, results, reg, env, raises) ==
    IF results = <<>> \/ SnippetsOf(results) = <<>> THEN LeanArgs(participant)
    ELSE LiveArgs(participant,
                  classify_snippets(reg, env, raises, SnippetsOf(results)).value,
                  SubSeq(SortByAbsScore(EvidenceOf(results, reg, env, raises)),
                         1, Min(MAX_EVIDENCE_ITEMS,
                                Len(EvidenceOf(results, reg, env, raises)))))

\* process_participant with use_cache=True.  `raises` are the source
\* callables that raise if the news is fetched, `failing` the classifier
\* backends that raise when the router calls them.
process_participant(file, news_dir, today, sources, reg, env, raises, failing, participant) ==
    LET Processed(results, news) ==
            LET Done(args, stored) ==
                    [file |-> stored.file, news |-> news, args |-> args,
                     entry |-> stored.entry, history |-> stored.history,
                     returned |-> <<args.score, args.label>>]
                With(args) == Done(args, add_stance(file, today, participant.name, args))
            IN  With(StanceArgs(participant, results, reg, env, failing))
        Fetched(fetched) ==
            Processed(fetched.value, (<<today, participant.name>> :> fetched.value) @@ news_dir)
    IN  IF ~load_cached_news(news_dir, today, participant).none
        THEN Processed(load_cached_news(news_dir, today, participant).results, news_dir)
        ELSE Fetched(fetch_news_for_participant(sources, raises, participant.name))

\* ------------------------------------------------------------------------
\* State
\* ------------------------------------------------------------------------
VARIABLES
    _CLASSIFIERS,   \* stance_classifier._CLASSIFIERS
    _SOURCES,       \* news_fetcher._SOURCES
    environ,        \* the API-key variables of os.environ that are set
    NEWS_DIR,       \* the saved news files: <<date, participant>> -> results
    HISTORY_FILE,   \* the persisted stance history
    today,          \* the date datetime.now() falls on
    last,           \* the last operation, its arguments and its outcome
    pending         \* the add_stance calls in progress: writer -> its position and locals

vars == <<_CLASSIFIERS, _SOURCES, environ, NEWS_DIR, HISTORY_FILE, today, last, pending>>

\* ------------------------------------------------------------------------
\* Inputs
\* ------------------------------------------------------------------------
PluginNames == {"my_llm", "backup"}

ApiKeys == {LLM_CHAIN[k].key : k \in DOMAIN LLM_CHAIN}

StoreNames == {"Lorie K. Logan", "Ada Newcomer"}

TODAY == 20260216

NoCall == [op |-> "none"]

PluginsOf(reg) == {Backend("plugin", reg[i].fn) : i \in {j \in DOMAIN reg : reg[j].enabled}}

LLMsOf(env) ==
    {Backend(LLM_CHAIN[k].kind, 0) : k \in {j \in DOMAIN LLM_CHAIN : LLM_CHAIN[j].key \in env}}

\* The two registries live in separate modules and share no state; a
\* behaviour of the model exercises one of them at a time.
ClassifierSideUntouched == _CLASSIFIERS = <<>> /\ environ = {}

SourceSideUntouched == _SOURCES = BUILTIN_SOURCES /\ NEWS_DIR = <<>>

Init ==
    /\ _CLASSIFIERS = <<>>
    /\ _SOURCES = BUILTIN_SOURCES
    /\ environ = {}
    /\ NEWS_DIR = <<>>
    /\ HISTORY_FILE = NoFile
    /\ today = TODAY
    /\ last = NoCall
    /\ pending = <<>>

\* ------------------------------------------------------------------------
\* Classifier registry and router
\* ------------------------------------------------------------------------
\* the `enabled` keyword argument of register_*: omitted, True or False
EnabledArgs == {None, Some(TRUE), Some(FALSE)}

\* `enabled: bool = True`
EnabledOrDefault(enabled) == IF enabled.none THEN TRUE ELSE enabled.value

RegisterClassifier ==
    /\ SourceSideUntouched
    /\ Len(_CLASSIFIERS) < MaxRegistry
    /\ \E name \in PluginNames, enabled \in EnabledArgs :
        /\ _CLASSIFIERS' = register_classifier(_CLASSIFIERS, name, Len(_CLASSIFIERS) + 1,
                                               EnabledOrDefault(enabled))
        /\ last' = [op |-> "register_classifier", name |-> name, enabled |-> enabled,
                    status |-> "returned"]
    /\ UNCHANGED <<_SOURCES, environ, NEWS_DIR, HISTORY_FILE, today, pending>>

EnableClassifier ==
    /\ SourceSideUntouched
    /\ \E name \in PluginNames :
        LET r == enable_classifier(_CLASSIFIERS, name)
        IN  /\ _CLASSIFIERS' = r.reg
            /\ last' = [op |-> "enable_classifier", name |-> name,
                        status |-> IF r.raised = "none" THEN "returned" ELSE r.raised]
    /\ UNCHANGED <<_SOURCES, environ, NEWS_DIR, HISTORY_FILE, today, pending>>

DisableClassifier ==
    /\ SourceSideUntouched
    /\ \E name \in PluginNames :
        LET r == disable_classifier(_CLASSIFIERS, name)
        IN  /\ _CLASSIFIERS' = r.reg
            /\ last' = [op |-> "disable_classifier", name |-> name,
                        status |-> IF r.raised = "none" THEN "returned" ELSE r.raised]
    /\ UNCHANGED <<_SOURCES, environ, NEWS_DIR, HISTORY_FILE, today, pending>>

ListClassifiers ==
    /\ SourceSideUntouched
    /\ last' = [op |-> "list_classifiers", returned |-> list_classifiers(_CLASSIFIERS),
                status |-> "returned"]
    /\ UNCHANGED <<_CLASSIFIERS, _SOURCES, environ, NEWS_DIR, HISTORY_FILE, today, pending>>

\* an API key is exported or removed in the process environment
SetEnviron ==
    /\ SourceSideUntouched
    /\ \E key \in ApiKeys :
        /\ environ' = IF key \in environ THEN environ \ {key} ELSE environ \cup {key}
        /\ last' = [op |-> "environ", name |-> key, status |-> "returned"]
    /\ UNCHANGED <<_CLASSIFIERS, _SOURCES, NEWS_DIR, HISTORY_FILE, today, pending>>

RouterCall(op, input, raises) ==
    LET Outcome(r) == [op |-> op, input |-> input, raises |-> raises,
                       status |-> r.status, value |-> r.value, invoked |-> r.invoked]
    IN  last' = Outcome(Route(op, _CLASSIFIERS, environ, raises, input))

ClassifyText ==
    /\ SourceSideUntouched
    /\ \E text \in Texts, raises \in SUBSET (PluginsOf(_CLASSIFIERS) \cup LLMsOf(environ)) :
        RouterCall("classify_text", text, raises)
    /\ UNCHANGED <<_CLASSIFIERS, _SOURCES, environ, NEWS_DIR, HISTORY_FILE, today, pending>>

ClassifyTextWithEvidence ==
    /\ SourceSideUntouched
    /\ \E text \in Texts, raises \in SUBSET (PluginsOf(_CLASSIFIERS) \cup LLMsOf(environ)) :
        RouterCall("classify_text_with_evidence", text, raises)
    /\ UNCHANGED <<_CLASSIFIERS, _SOURCES, environ, NEWS_DIR, HISTORY_FILE, today, pending>>

ClassifySnippets ==
    /\ SourceSideUntouched
    /\ \E snippets \in SnippetLists,
          raises \in SUBSET (PluginsOf(_CLASSIFIERS) \cup LLMsOf(environ)) :
        RouterCall("classify_snippets", snippets, raises)
    /\ UNCHANGED <<_CLASSIFIERS, _SOURCES, environ, NEWS_DIR, HISTORY_FILE, today, pending>>

\* ------------------------------------------------------------------------
\* Source registry and fetcher
\* ------------------------------------------------------------------------
SourceNames == {"my_api", "duckduckgo"}

RegisterSource ==
    /\ ClassifierSideUntouched
    /\ Len(_SOURCES) < Len(BUILTIN_SOURCES) + MaxRegistry
    /\ \E name \in SourceNames, enabled \in EnabledArgs :
        /\ _SOURCES' = register_source(_SOURCES, name, Len(_SOURCES) + 1,
                                       EnabledOrDefault(enabled))
        /\ last' = [op |-> "register_source", name |-> name, enabled |-> enabled,
                    status |-> "returned"]
    /\ UNCHANGED <<_CLASSIFIERS, environ, NEWS_DIR, HISTORY_FILE, today, pending>>

EnableSource ==
    /\ ClassifierSideUntouched
    /\ \E name \in SourceNames :
        LET r == enable_source(_SOURCES, name)
        IN  /\ _SOURCES' = r.reg
            /\ last' = [op |-> "enable_source", name |-> name,
                        status |-> IF r.raised = "none" THEN "returned" ELSE r.raised]
    /\ UNCHANGED <<_CLASSIFIERS, environ, NEWS_DIR, HISTORY_FILE, today, pending>>

DisableSource ==
    /\ ClassifierSideUntouched
    /\ \E name \in SourceNames :
        LET r == disable_source(_SOURCES, name)
        IN  /\ _SOURCES' = r.reg
            /\ last' = [op |-> "disable_source", name |-> name,
                        status |-> IF r.raised = "none" THEN "returned" ELSE r.raised]
    /\ UNCHANGED <<_CLASSIFIERS, environ, NEWS_DIR, HISTORY_FILE, today, pending>>

ListSources ==
    /\ ClassifierSideUntouched
    /\ last' = [op |-> "list_sources", returned |-> list_sources(_SOURCES),
                status |-> "returned"]
    /\ UNCHANGED <<_CLASSIFIERS, _SOURCES, environ, NEWS_DIR, HISTORY_FILE, today, pending>>

SourceFnsOf(reg) == {reg[i].fn : i \in {j \in DOMAIN reg : reg[j].enabled}}

FetchNews ==
    /\ ClassifierSideUntouched
    /\ \E raises \in SUBSET SourceFnsOf(_SOURCES) :
        LET participant == "Lorie K. Logan"
            r == fetch_news_for_participant(_SOURCES, raises, participant)
        IN  /\ NEWS_DIR' = IF r.status = "returned"
                           THEN (<<today, participant>> :> r.value) @@ NEWS_DIR
                           ELSE NEWS_DIR
            /\ last' = [op |-> "fetch_news_for_participant", input |-> participant,
                        raises |-> raises, status |-> r.status, value |-> r.value,
                        invoked |-> r.invoked]
    /\ UNCHANGED <<_CLASSIFIERS, _SOURCES, environ, HISTORY_FILE, today, pending>>

NextRegistry ==
    \/ RegisterClassifier
    \/ EnableClassifier
    \/ DisableClassifier
    \/ ListClassifiers
    \/ SetEnviron
    \/ ClassifyText
    \/ ClassifyTextWithEvidence
    \/ ClassifySnippets
    \/ RegisterSource
    \/ EnableSource
    \/ DisableSource
    \/ ListSources
    \/ FetchNews

SpecRegistry == Init /\ [][NextRegistry]_vars

\* ------------------------------------------------------------------------
\* Stance store and pipeline: inputs
\* ------------------------------------------------------------------------
SampleEvidence ==
    <<[title |-> "Speech", url |-> "https://example.org/speech",
       source_type |-> "duckduckgo", keywords |-> <<"rate cut">>,
       quote |-> "a rate cut is coming"]>>

\* keyword arguments of the add_stance calls of the model: defaults only;
\* a seed date; every field given, with evidence; an empty evidence list;
\* a second value for today
StanceInputs ==
    { [score |-> Rat(20004, 10), label |-> "Hawkish"],
      [score |-> FromMilli(0), label |-> "Neutral", date |-> 20251215],
      [score |-> FromMilli(-1750), label |-> "Dovish", date |-> 20260101,
       source |-> "manual", evidence |-> SampleEvidence,
       policy_score |-> FromMilli(-2000), policy_label |-> "Dovish",
       balance_sheet_score |-> FromMilli(-1000), balance_sheet_label |-> "Neutral"],
      [score |-> FromMilli(500), label |-> "Neutral", date |-> 20260101,
       evidence |-> <<>>],
      [score |-> FromMilli(1000), label |-> "Neutral", date |-> TODAY] }

LoganNews ==
    NewsItem("duckduckgo", "Logan stays vigilant",
             "A rate hike is not premature despite recession talk and disinflation",
             "https://example.org/logan", "2026-02-16")

BlankNews == NewsItem("fed_rss", "", "", "https://example.org/blank", "2026-02-16")

\* the results held by today's news file of the participant, when there is one
CachedResults == {<<>>, <<BlankNews>>, <<BlankNews, LoganNews>>}

\* the news directory at the start: no file, or today's file of the participant
NewsDirs ==
    {<<>>} \cup {(<<TODAY, p.name>> :> results) : p \in PARTICIPANTS, results \in CachedResults}

\* a persisted file that add_stance did not write: legacy entries without
\* the dual-dimension fields, entries on seed dates, repeated dates, entries
\* out of order
LegacyEntry(date, score, label) ==
    [date |-> date, score |-> score, label |-> label, source |-> "live"]

PersistedFiles ==
    { NoFile,
      FileOf(<<>>),
      FileOf("Lorie K. Logan" :>
                <<LegacyEntry(20260101, -3000, "Dovish"),
                  LegacyEntry(20251215, -3000, "Dovish"),
                  [date |-> 20260101, label |-> "Neutral", source |-> "live"]>>),
      FileOf(("Ada Newcomer" :>
                <<LegacyEntry(20260216, 2000, "Hawkish"),
                  LegacyEntry(20260101, 0, "Neutral")>>)
             @@ ("Lorie K. Logan" :>
                <<SeedEntry(20260115, -2000, "Dovish", -2000, "Dovish", 0, "Neutral")>>)),
      \* records with the fields of one dimension only
      FileOf("Ada Newcomer" :>
                <<[date |-> 20260101, score |-> 2000, label |-> "Hawkish", source |-> "live",
                   policy_score |-> 1000, policy_label |-> "Neutral"],
                  [date |-> 20260102, score |-> -2000, label |-> "Dovish", source |-> "live",
                   balance_sheet_score |-> 3000, balance_sheet_label |-> "Hawkish"]>>) }

\* ------------------------------------------------------------------------
\* Stance store and pipeline: actions
\* ------------------------------------------------------------------------
Keys(history) ==
    UNION {{<<n, history[n][i].date>> : i \in DOMAIN history[n]} : n \in DOMAIN history}

\* the model stops adding keys once MaxPersisted keys lie outside the seed
MayWrite(name, date) ==
    \/ <<name, date>> \in Keys(load_history(HISTORY_FILE))
    \/ Cardinality(Keys(load_history(HISTORY_FILE)) \ Keys(SEED_DATA)) < MaxPersisted

AddStance ==
    /\ \E name \in StoreNames, args \in StanceInputs :
        LET Applied(r) ==
                /\ HISTORY_FILE' = r.file
                /\ last' = [op |-> "add_stance", name |-> name, args |-> args,
                            date |-> r.entry.date, entry |-> r.entry,
                            returned |-> r.history,
                            repeat |-> /\ last.op = "add_stance"
                                       /\ last.name = name
                                       /\ last.args = args]
        IN  /\ MayWrite(name, IF Given(args, "date") THEN args.date ELSE today)
            /\ Applied(add_stance(HISTORY_FILE, today, name, args))
    /\ UNCHANGED <<_CLASSIFIERS, _SOURCES, environ, NEWS_DIR, today, pending>>

LoadHistory ==
    /\ last' = [op |-> "load_history", returned |-> load_history(HISTORY_FILE)]
    /\ UNCHANGED <<_CLASSIFIERS, _SOURCES, environ, NEWS_DIR, HISTORY_FILE, today, pending>>

GetLatestStance ==
    /\ \E name \in StoreNames :
        last' = [op |-> "get_latest_stance", name |-> name,
                 returned |-> get_latest_stance(HISTORY_FILE, name)]
    /\ UNCHANGED <<_CLASSIFIERS, _SOURCES, environ, NEWS_DIR, HISTORY_FILE, today, pending>>

ProcessParticipant ==
    /\ \E participant \in PARTICIPANTS, raises \in SUBSET SourceFnsOf(_SOURCES),
          failing \in SUBSET (PluginsOf(_CLASSIFIERS) \cup LLMsOf(environ)) :
        LET Applied(r) ==
                /\ HISTORY_FILE' = r.file
                /\ NEWS_DIR' = r.news
                /\ last' = [op |-> "process_participant", name |-> participant.name,
                            args |-> r.args, date |-> today, entry |-> r.entry,
                            returned |-> r.returned, failing |-> failing,
                            results |-> r.news[<<today, participant.name>>]]
        IN  /\ MayWrite(participant.name, today)
            /\ Applied(process_participant(HISTORY_FILE, NEWS_DIR, today, _SOURCES,
                                           _CLASSIFIERS, environ, raises, failing,
                                           participant))
    /\ UNCHANGED <<_CLASSIFIERS, _SOURCES, environ, today, pending>>

NextStore ==
    \/ AddStance
    \/ LoadHistory
    \/ GetLatestStance
    \/ ProcessParticipant

\* the store starts without a persisted file
InitStore ==
    /\ _CLASSIFIERS = <<>>
    /\ _SOURCES = BUILTIN_SOURCES
    /\ environ = {}
    /\ NEWS_DIR \in NewsDirs
    /\ HISTORY_FILE = NoFile
    /\ today = TODAY
    /\ last = NoCall
    /\ pending = <<>>

SpecStore == InitStore /\ [][NextStore]_vars

\* the store starts from any of the persisted files
InitLoad ==
    /\ _CLASSIFIERS = <<>>
    /\ _SOURCES = BUILTIN_SOURCES
    /\ environ = {}
    /\ NEWS_DIR \in NewsDirs
    /\ HISTORY_FILE \in PersistedFiles
    /\ today = TODAY
    /\ last = NoCall
    /\ pending = <<>>

SpecLoad == InitLoad /\ [][NextStore]_vars

\* ------------------------------------------------------------------------
\* Properties of the router and the registries
\* ------------------------------------------------------------------------
RouterOps == {"classify_text", "classify_text_with_evidence", "classify_snippets"}

IsRouterCall == last.op \in RouterOps

IsFetch == last.op = "fetch_news_for_participant"

\* the keyword classifier applied directly to the input of the last call
KeywordOfLast ==
    IF last.op = "classify_text" THEN classify_text_keyword(last.input)
    ELSE IF last.op = "classify_text_with_evidence"
         THEN classify_text_with_evidence_keyword(last.input)
         ELSE classify_snippets_keyword(last.input)

AllPluginsRaised == PluginsOf(_CLASSIFIERS) \subseteq last.raises

\* C1: whatever backends raise, the three classify entry points and the
\* source fetcher return a result; when every enabled plugin raises and no
\* API key is set, the result is the keyword classifier's result for the
\* same input.
C1_FailureIsolation ==
    /\ IsRouterCall => last.status = "returned"
    /\ IsFetch => last.status = "returned"
    /\ (IsRouterCall /\ AllPluginsRaised /\ environ = {}) => last.value = KeywordOfLast

C1_Witness ==
    /\ IsRouterCall
    /\ PluginsOf(_CLASSIFIERS) # {}
    /\ AllPluginsRaised
    /\ environ = {}
    /\ last.status = "returned"

\* positions of the enabled entries whose call does not raise in the last call
WorkingEntries ==
    {i \in DOMAIN _CLASSIFIERS :
        _CLASSIFIERS[i].enabled /\ Backend("plugin", _CLASSIFIERS[i].fn) \notin last.raises}

FirstWorking == CHOOSE i \in WorkingEntries : \A j \in WorkingEntries : i <= j

PositionOf(fn) == CHOOSE i \in DOMAIN _CLASSIFIERS : _CLASSIFIERS[i].fn = fn

\* C2: the router returns, unchanged, the value of the first enabled entry
\* (in registration order) that does not raise; no later entry, no LLM
\* backend and not the keyword classifier is invoked.
C2_FirstWorkingEntryWins ==
    (IsRouterCall /\ WorkingEntries # {}) =>
        /\ last.value = BackendValue(Backend("plugin", _CLASSIFIERS[FirstWorking].fn),
                                     last.op, last.input)
        /\ \A k \in DOMAIN last.invoked :
            /\ last.invoked[k].kind = "plugin"
            /\ PositionOf(last.invoked[k].fn) <= FirstWorking

C2_Witness ==
    /\ IsRouterCall
    /\ WorkingEntries # {}
    /\ Len(last.invoked) > 1
    /\ environ # {}

\* the order the documentation gives: registered plugins, Cerebras, Gemini,
\* OpenAI, keyword fallback
RECURSIVE EnabledPlugins(_, _)
EnabledPlugins(reg, i) ==
    IF i > Len(reg) THEN <<>>
    ELSE (IF reg[i].enabled THEN <<Backend("plugin", reg[i].fn)>> ELSE <<>>)
            \o EnabledPlugins(reg, i + 1)

PriorityChain ==
    EnabledPlugins(_CLASSIFIERS, 1)
        \o (IF "CEREBRAS_API_KEY" \in environ THEN <<Backend("cerebras", 0)>> ELSE <<>>)
        \o (IF "GEMINI_API_KEY" \in environ THEN <<Backend("gemini", 0)>> ELSE <<>>)
        \o (IF "OPENAI_API_KEY" \in environ THEN <<Backend("openai", 0)>> ELSE <<>>)
        \o <<KeywordBackend>>

\* C3: the backends attempted by a call are an initial part of the priority
\* chain; every attempted backend but the last raised, and the last one
\* returned (the keyword classifier only after all others were skipped or
\* raised).
C3_PriorityChain ==
    IsRouterCall =>
        LET n == Len(last.invoked)
        IN  /\ n >= 1
            /\ n <= Len(PriorityChain)
            /\ last.invoked = SubSeq(PriorityChain, 1, n)
            /\ \A k \in 1..(n - 1) : last.invoked[k] \in last.raises
            /\ last.invoked[n] \notin last.raises

C3_Witness ==
    /\ IsRouterCall
    /\ Len(last.invoked) >= 4
    /\ last.invoked[Len(last.invoked)].kind = "openai"
    /\ last.invoked[1].kind = "plugin"

EntryOfFn(reg, fn) == reg[CHOOSE i \in DOMAIN reg : reg[i].fn = fn]

\* C4: the router and the fetcher invoke only entries whose flag is enabled.
C4_DisabledNeverInvoked ==
    /\ IsRouterCall =>
        \A k \in DOMAIN last.invoked :
            last.invoked[k].kind = "plugin" =>
                EntryOfFn(_CLASSIFIERS, last.invoked[k].fn).enabled
    /\ IsFetch =>
        \A k \in DOMAIN last.invoked : EntryOfFn(_SOURCES, last.invoked[k]).enabled

C4_Witness ==
    /\ IsRouterCall
    /\ \E i \in DOMAIN _CLASSIFIERS :
        /\ ~_CLASSIFIERS[i].enabled
        /\ i < Len(_CLASSIFIERS)
        /\ Backend("plugin", _CLASSIFIERS[i + 1].fn) \in Range(last.invoked)

C4_WitnessSource ==
    /\ IsFetch
    /\ \E i \in DOMAIN _SOURCES : ~_SOURCES[i].enabled
    /\ last.invoked # <<>>

\* ------------------------------------------------------------------------
\* Properties of the stance store
\* ------------------------------------------------------------------------
\* the entries of `history` under the key (name, date), in list order
EntriesAt(history, name, date) ==
    IF name \in DOMAIN history
    THEN SelectSeq(history[name], LAMBDA e : e.date = date)
    ELSE <<>>

EntriesOf(history, name) == IF name \in DOMAIN history THEN history[name] ELSE <<>>

SeedDates(name) == IF name \in DOMAIN SEED_DATA THEN DatesOf(SEED_DATA[name]) ELSE {}

IsAddStance == last.op = "add_stance"

\* C5: after add_stance(name, ..., date=D) returns, a fresh load_history()
\* holds for (name, D) exactly the entry just written, and the history that
\* add_stance returned equals that fresh load, whether (name, D) was new,
\* persisted, or a seed key.
C5_UpsertVisibleAfterReload ==
    (IsAddStance /\ Given(last.args, "date")) =>
        /\ EntriesAt(load_history(HISTORY_FILE), last.name, last.date) = <<last.entry>>
        /\ last.returned = load_history(HISTORY_FILE)

\* C6: for every (participant, date) of SEED_DATA the loaded history holds
\* the seed entry and no other, whatever the persisted file contains; every
\* other loaded entry is a persisted entry (backfilled) whose date is not in
\* the seed list of its participant.
C6_SeedIsFloor ==
    /\ \A name \in DOMAIN SEED_DATA : \A i \in DOMAIN SEED_DATA[name] :
        EntriesAt(load_history(HISTORY_FILE), name, SEED_DATA[name][i].date)
            = <<SEED_DATA[name][i]>>
    /\ \A name \in DOMAIN load_history(HISTORY_FILE) :
        \A e \in Range(load_history(HISTORY_FILE)[name]) :
            \/ e.date \in SeedDates(name) /\ e \in Range(SEED_DATA[name])
            \/ /\ e.date \notin SeedDates(name)
               /\ HISTORY_FILE.exists
               /\ name \in DOMAIN HISTORY_FILE.data
               /\ \E p \in Range(HISTORY_FILE.data[name]) : _backfill_entry(p) = e

\* a load of a file that holds, on a seed date, an entry that is not the seed's
C6_Witness ==
    /\ last.op = "load_history"
    /\ HISTORY_FILE.exists
    /\ \E name \in DOMAIN SEED_DATA \cap DOMAIN HISTORY_FILE.data :
        \E p \in Range(HISTORY_FILE.data[name]) :
            p.date \in SeedDates(name) /\ p \notin Range(SEED_DATA[name])

\* C7: a second add_stance with the arguments of the call before it (same
\* name, explicit date, scores, labels, source, evidence) leaves the
\* persisted store and the entry for (name, date) as the first call left
\* them, and the participant's list does not grow.
C7_UpsertIdempotent ==
    [][(last'.op = "add_stance" /\ last'.repeat /\ Given(last'.args, "date")) =>
            /\ HISTORY_FILE' = HISTORY_FILE
            /\ last'.entry = last.entry
            /\ EntriesAt(HISTORY_FILE'.data, last'.name, last'.date)
                    = EntriesAt(HISTORY_FILE.data, last.name, last.date)
            /\ Len(HISTORY_FILE'.data[last'.name]) = Len(HISTORY_FILE.data[last.name])
            /\ last'.returned = last.returned]_vars

\* the second of two identical calls has returned, on a key that is not alone
C7_Witness ==
    /\ IsAddStance
    /\ last.repeat
    /\ Given(last.args, "date")
    /\ Len(HISTORY_FILE.data[last.name]) > 1
    /\ EntriesAt(HISTORY_FILE.data, last.name, last.date) = <<last.entry>>

\* the entry of a non-empty list with the greatest date
Latest(entries) ==
    CHOOSE e \in Range(entries) : \A f \in Range(entries) : f.date <= e.date

\* C8: from a store written only by add_stance, every participant's list in
\* the loaded history is strictly ascending by date, so a (participant,
\* date) key occurs once, and get_latest_stance(name) returns the entry with
\* the greatest date, or None for a participant without entries.
C8_UniqueKeyAndOrder ==
    /\ \A name \in DOMAIN load_history(HISTORY_FILE) :
        \A i \in 1..(Len(load_history(HISTORY_FILE)[name]) - 1) :
            load_history(HISTORY_FILE)[name][i].date
                < load_history(HISTORY_FILE)[name][i + 1].date
    /\ last.op = "get_latest_stance" =>
        last.returned =
            IF EntriesOf(load_history(HISTORY_FILE), last.name) = <<>> THEN None
            ELSE Latest(EntriesOf(load_history(HISTORY_FILE), last.name))

\* get_latest_stance returned an entry that add_stance wrote, from a list
\* that also holds an earlier entry that add_stance wrote
C8_Witness ==
    /\ last.op = "get_latest_stance"
    /\ last.returned # None
    /\ last.returned.source # "seed"
    /\ \E i \in DOMAIN HISTORY_FILE.data[last.name] :
        /\ HISTORY_FILE.data[last.name][i].source # "seed"
        /\ HISTORY_FILE.data[last.name][i].date < last.returned.date

IsWrite(l) == l.op \in {"add_stance", "process_participant"}

\* C9: add_stance(name, ..., date=D) changes at most the entry for (name, D):
\* every other key of the loaded history keeps its entry, no key appears
\* other than (name, D), and no step removes a key.
C9_UpsertFrame ==
    [][/\ Keys(load_history(HISTORY_FILE)) \subseteq Keys(load_history(HISTORY_FILE'))
       /\ \A k \in Keys(load_history(HISTORY_FILE')) :
            (IsWrite(last') /\ k = <<last'.name, last'.date>>)
            \/ EntriesAt(load_history(HISTORY_FILE'), k[1], k[2])
                    = EntriesAt(load_history(HISTORY_FILE), k[1], k[2])]_vars

\* add_stance has returned and the store holds, outside the seed, a key
\* other than the one written
C9_Witness ==
    /\ IsAddStance
    /\ Cardinality((Keys(load_history(HISTORY_FILE)) \ Keys(SEED_DATA))
                        \ {<<last.name, last.date>>}) >= 1
    /\ <<last.name, last.date>> \in Keys(load_history(HISTORY_FILE)) \ Keys(SEED_DATA)

InRange(score) == SCORE_MIN <= score /\ score <= SCORE_MAX

\* C10: every entry of the store has its three scores within [-5, 5] and each
\* label equal to score_label of the stored, rounded score.
C10_StoredEntryInvariant ==
    \A name \in DOMAIN load_history(HISTORY_FILE) :
        \A e \in Range(load_history(HISTORY_FILE)[name]) :
            /\ InRange(e.score) /\ InRange(e.policy_score) /\ InRange(e.balance_sheet_score)
            /\ e.label = score_label(FromMilli(e.score))
            /\ e.policy_label = score_label(FromMilli(e.policy_score))
            /\ e.balance_sheet_label = score_label(FromMilli(e.balance_sheet_score))

\* ------------------------------------------------------------------------
\* Two unserialized add_stance calls
\* ------------------------------------------------------------------------
\* add_stance takes no lock: between its load_history() and its
\* save_history() another run of the program can load or save the store.
Writers == {1, 2}

Idle == [pc |-> "idle"]

Saved(w) == pending[w].pc = "saved"

SavedWriters == {w \in Writers : Saved(w)}

\* the stores the writers start from: no file, or a file add_stance wrote
WriterFiles ==
    {NoFile} \cup {add_stance(NoFile, TODAY, name, args).file :
                        name \in StoreNames, args \in StanceInputs}

\* add_stance up to and including history = load_history()
BeginAddStance(w) ==
    /\ pending[w].pc = "idle"
    /\ \E name \in StoreNames, args \in StanceInputs :
        pending' = [pending EXCEPT ![w] =
                        [pc |-> "loaded", name |-> name, args |-> args,
                         history |-> load_history(HISTORY_FILE),
                         loaded_after |-> SavedWriters]]
    /\ UNCHANGED <<_CLASSIFIERS, _SOURCES, environ, NEWS_DIR, HISTORY_FILE, today, last>>

\* the rest of add_stance: the entry is put into the history loaded earlier
\* and save_history writes that history over the file
EndAddStance(w) ==
    /\ pending[w].pc = "loaded"
    /\ LET Applied(r) ==
            /\ HISTORY_FILE' = r.file
            /\ pending' = [pending EXCEPT ![w] =
                    [pc |-> "saved", name |-> pending[w].name, args |-> pending[w].args,
                     history |-> pending[w].history, entry |-> r.entry,
                     date |-> r.entry.date,
                     loaded_after |-> pending[w].loaded_after,
                     saved_after |-> SavedWriters]]
            /\ last' = [op |-> "add_stance", name |-> pending[w].name,
                        args |-> pending[w].args, date |-> r.entry.date,
                        entry |-> r.entry, returned |-> r.history, repeat |-> FALSE]
       IN  Applied(add_stance_after_load(pending[w].history, today,
                                         pending[w].name, pending[w].args))
    /\ UNCHANGED <<_CLASSIFIERS, _SOURCES, environ, NEWS_DIR, today>>

NextWriters == \E w \in Writers : BeginAddStance(w) \/ EndAddStance(w)

InitWriters ==
    /\ _CLASSIFIERS = <<>>
    /\ _SOURCES = BUILTIN_SOURCES
    /\ environ = {}
    /\ NEWS_DIR = <<>>
    /\ HISTORY_FILE \in WriterFiles
    /\ today = TODAY
    /\ last = NoCall
    /\ pending = [w \in Writers |-> Idle]

SpecWriters == InitWriters /\ [][NextWriters]_vars

\* f saved first and s saved second, for different participants
SavedInOrder(f, s) ==
    /\ Saved(f) /\ Saved(s)
    /\ pending[f].saved_after = {} /\ pending[s].saved_after = {f}
    /\ pending[f].name # pending[s].name

\* C11: of two add_stance calls for different participants, when the second
\* saver loaded before the first saver saved, the persisted store holds for
\* the first saver's participant the list the second saver had loaded, so the
\* first saver's write is gone; when the second saver loaded after the first
\* saved (a serialized execution), the store holds both entries.
C11_UnserializedWritersLoseUpdates ==
    \A f \in Writers, s \in Writers :
        SavedInOrder(f, s) =>
            IF f \in pending[s].loaded_after
            THEN \A w \in {f, s} :
                    EntriesAt(HISTORY_FILE.data, pending[w].name, pending[w].date)
                        = <<pending[w].entry>>
            ELSE /\ EntriesOf(HISTORY_FILE.data, pending[f].name)
                        = EntriesOf(pending[s].history, pending[f].name)
                 /\ EntriesAt(HISTORY_FILE.data, pending[s].name, pending[s].date)
                        = <<pending[s].entry>>

\* Supporting property: the same statement for calls whose keys are not
\* seed keys.
LostUpdateOutsideSeed ==
    \A f \in Writers, s \in Writers :
        (/\ SavedInOrder(f, s)
         /\ pending[f].date \notin SeedDates(pending[f].name)
         /\ pending[s].date \notin SeedDates(pending[s].name)) =>
            IF f \in pending[s].loaded_after
            THEN \A w \in {f, s} :
                    EntriesAt(HISTORY_FILE.data, pending[w].name, pending[w].date)
                        = <<pending[w].entry>>
            ELSE /\ EntriesOf(HISTORY_FILE.data, pending[f].name)
                        = EntriesOf(pending[s].history, pending[f].name)
                 /\ EntriesAt(HISTORY_FILE.data, pending[s].name, pending[s].date)
                        = <<pending[s].entry>>

\* both calls loaded before either saved, and the persisted store lacks the
\* entry of the first saver
LostUpdateReached ==
    \E f \in Writers, s \in Writers :
        /\ SavedInOrder(f, s)
        /\ pending[s].loaded_after = {}
        /\ pending[f].entry \notin Range(EntriesOf(HISTORY_FILE.data, pending[f].name))
        /\ pending[s].entry \in Range(EntriesOf(HISTORY_FILE.data, pending[s].name))

\* ------------------------------------------------------------------------
\* The pipeline under classifier-backend failures
\* ------------------------------------------------------------------------
\* the classifier registries the pipeline runs with
PipelineRegistries ==
    { <<>>,
      <<Entry("my_llm", 1, TRUE)>>,
      <<Entry("my_llm", 1, FALSE), Entry("backup", 2, TRUE)>> }

\* the stores the pipeline starts from: no file, or the file an earlier
\* add_stance of today wrote for the participant or for someone else
PipelineFiles ==
    {NoFile} \cup {add_stance(NoFile, TODAY, name,
                              [score |-> Rat(20004, 10), label |-> "Hawkish"]).file :
                        name \in StoreNames}

\* the API keys set: none, the first of the chain, or all
PipelineEnvirons == {{}, {LLM_CHAIN[1].key}, ApiKeys}

InitPipeline ==
    /\ _CLASSIFIERS \in PipelineRegistries
    /\ _SOURCES = BUILTIN_SOURCES
    /\ environ \in PipelineEnvirons
    /\ NEWS_DIR \in NewsDirs
    /\ HISTORY_FILE \in PipelineFiles
    /\ today = TODAY
    /\ last = NoCall
    /\ pending = <<>>

NextPipeline == ProcessParticipant

SpecPipeline == InitPipeline /\ [][NextPipeline]_vars

ClassifierBackends == PluginsOf(_CLASSIFIERS) \cup LLMsOf(environ)

\* the stance that process_participant stored, given its outcome r: one entry
\* for (participant, today) and nothing else changed; from the leans alone
\* when there are no results or no text, from the classification of the
\* snippets blended with the leans otherwise
YieldsStance(participant, failing, r) ==
    LET results == r.news[<<today, participant.name>>]
        Blended(news, lean) ==
            Round3(Clamp(Blend(NEWS_WEIGHT, FromMilli(news),
                               HISTORICAL_WEIGHT, FromMilli(lean))))
        IsLive(result) ==
            /\ r.entry.source = "live"
            /\ r.entry.policy_score
                    = Blended(result.policy_score, participant.historical_lean)
            /\ r.entry.balance_sheet_score
                    = Blended(result.balance_sheet_score,
                              participant.historical_balance_sheet_lean)
    IN  /\ r.entry.date = today
        /\ EntriesAt(r.file.data, participant.name, today) = <<r.entry>>
        /\ Keys(r.file.data)
                = Keys(load_history(HISTORY_FILE)) \cup {<<participant.name, today>>}
        /\ \A k \in Keys(r.file.data) \ {<<participant.name, today>>} :
                EntriesAt(r.file.data, k[1], k[2])
                    = EntriesAt(load_history(HISTORY_FILE), k[1], k[2])
        /\ r.returned = <<r.args.score, r.args.label>>
        /\ IF results = <<>> \/ \A i \in DOMAIN results : TextOf(results[i]) = ""
           THEN /\ r.entry.source = "historical_lean"
                /\ r.entry.policy_score = participant.historical_lean
                /\ r.entry.balance_sheet_score = participant.historical_balance_sheet_lean
           ELSE IsLive(classify_snippets(_CLASSIFIERS, environ, failing,
                                         SnippetsOf(results)).value)

\* C12: every process_participant call, for every participant, on every
\* path (cached or fetched news; no results, results without text, results
\* with text), under every pattern of failing sources and of failing
\* classifier backends, completes and stores exactly one stance for that
\* participant dated today: source historical_lean with the baseline leans
\* when there are no results or no text, source live with the
\* classification blended with the leans otherwise.
C12_PipelineAlwaysYieldsStance ==
    [][last'.op = "process_participant" =>
            \E participant \in PARTICIPANTS :
                /\ participant.name = last'.name
                /\ YieldsStance(participant, last'.failing,
                                [file |-> HISTORY_FILE', news |-> NEWS_DIR',
                                 entry |-> last'.entry, args |-> last'.args,
                                 returned |-> last'.returned])]_vars

\* process_participant has stored a live stance although a plugin and an LLM
\* backend were available and every available backend raised
C12_Witness ==
    /\ last.op = "process_participant"
    /\ PluginsOf(_CLASSIFIERS) # {} /\ LLMsOf(environ) # {}
    /\ last.failing = ClassifierBackends
    /\ last.entry.source = "live"
    /\ EntriesAt(HISTORY_FILE.data, last.name, today) = <<last.entry>>

\* the historical-lean branch was taken for results that hold no text
C12_WitnessBlank ==
    /\ last.op = "process_participant"
    /\ last.results # <<>>
    /\ last.entry.source = "historical_lean"

\* ------------------------------------------------------------------------
\* Dates (datetime.date).  A date is its proleptic Gregorian ordinal, as
\* date.toordinal() gives it; timedelta arithmetic is integer arithmetic.
\* ------------------------------------------------------------------------
IsLeap(y) == (y % 4 = 0 /\ y % 100 # 0) \/ y % 400 = 0

DaysBeforeYear(y) ==
    (y - 1) * 365 + ((y - 1) \div 4) - ((y - 1) \div 100) + ((y - 1) \div 400)

DaysBeforeMonth(y, m) ==
    <<0, 31, 59, 90, 120, 151, 181, 212, 243, 273, 304, 334>>[m]
        + (IF m > 2 /\ IsLeap(y) THEN 1 ELSE 0)

\* date(year, month, day)
date(y, m, d) == DaysBeforeYear(y) + DaysBeforeMonth(y, m) + d

\* date.weekday(): Monday is 0, Saturday is 5
weekday(o) == (o + 6) % 7

\* the years the calendar of the model lies in
CalendarYears == 2024..2027

YearOf(o) == CHOOSE y \in CalendarYears : date(y, 1, 1) <= o /\ o < date(y + 1, 1, 1)

MonthOf(o) ==
    CHOOSE m \in 1..12 :
        /\ date(YearOf(o), m, 1) <= o
        /\ (m = 12 \/ o < date(YearOf(o), m + 1, 1))

\* date.isoformat(), as the integer YYYYMMDD that stands for the string
isoformat(o) ==
    YearOf(o) * 10000 + MonthOf(o) * 100 + (o - date(YearOf(o), MonthOf(o), 1) + 1)

\* the date that an ISO string (as YYYYMMDD) names
fromisoformat(s) == date(s \div 10000, (s \div 100) % 100, s % 100)

\* ------------------------------------------------------------------------
\* Meeting calendar (meeting_calendar.py); rates in hundredths of a percent
\* ------------------------------------------------------------------------
\* FOMCMeeting, without statement_note.  The MPCMeeting of boe_tracker has
\* one date, which is start_date = end_date here.
FOMCMeeting(start_date, end_date, decision, rate_upper, rate_lower) ==
    [start_date |-> start_date, end_date |-> end_date, decision |-> decision,
     rate_upper |-> rate_upper, rate_lower |-> rate_lower]

Held(start_date, end_date) ==
    FOMCMeeting(start_date, end_date, Some("hold"), Some(450), Some(425))

Scheduled(start_date, end_date) == FOMCMeeting(start_date, end_date, None, None, None)

MEETINGS ==
    << Held(date(2025, 1, 28), date(2025, 1, 29)),
       Held(date(2025, 3, 18), date(2025, 3, 19)),
       Held(date(2025, 5, 6), date(2025, 5, 7)),
       Held(date(2025, 6, 17), date(2025, 6, 18)),
       Held(date(2025, 7, 29), date(2025, 7, 30)),
       Held(date(2025, 9, 16), date(2025, 9, 17)),
       Held(date(2025, 10, 28), date(2025, 10, 29)),
       Held(date(2025, 12, 16), date(2025, 12, 17)),
       Held(date(2026, 1, 27), date(2026, 1, 28)),
       Scheduled(date(2026, 3, 17), date(2026, 3, 18)),
       Scheduled(date(2026, 5, 5), date(2026, 5, 6)),
       Scheduled(date(2026, 6, 16), date(2026, 6, 17)),
       Scheduled(date(2026, 7, 28), date(2026, 7, 29)),
       Scheduled(date(2026, 9, 15), date(2026, 9, 16)),
       Scheduled(date(2026, 10, 27), date(2026, 10, 28)),
       Scheduled(date(2026, 12, 15), date(2026, 12, 16)) >>

\* MPCMeeting of boe_tracker, without vote_split and statement_note: one
\* date, the decision day, and one rate
MPCMeeting(d, decision, bank_rate) == FOMCMeeting(d, d, decision, bank_rate, bank_rate)

BOE_MEETINGS ==
    << MPCMeeting(date(2025, 2, 6), Some("-25"), Some(450)),
       MPCMeeting(date(2025, 3, 20), Some("hold"), Some(450)),
       MPCMeeting(date(2025, 5, 8), Some("-25"), Some(425)),
       MPCMeeting(date(2025, 6, 19), Some("hold"), Some(425)),
       MPCMeeting(date(2025, 8, 7), Some("-25"), Some(400)),
       MPCMeeting(date(2025, 9, 18), Some("hold"), Some(400)),
       MPCMeeting(date(2025, 11, 6), Some("-25"), Some(375)),
       MPCMeeting(date(2025, 12, 18), Some("hold"), Some(375)),
       MPCMeeting(date(2026, 2, 6), Some("-25"), Some(350)),
       MPCMeeting(date(2026, 3, 20), None, None),
       MPCMeeting(date(2026, 5, 7), None, None),
       MPCMeeting(date(2026, 6, 19), None, None),
       MPCMeeting(date(2026, 8, 6), None, None),
       MPCMeeting(date(2026, 9, 17), None, None),
       MPCMeeting(date(2026, 11, 5), None, None),
       MPCMeeting(date(2026, 12, 17), None, None) >>

\* MEETINGS.sort(key=lambda m: m.date), one insertion at a time
RECURSIVE InsertMeeting(_, _)
InsertMeeting(meetings, m) ==
    IF meetings = <<>> THEN <<m>>
    ELSE IF meetings[Len(meetings)].end_date <= m.end_date THEN Append(meetings, m)
    ELSE Append(InsertMeeting(SubSeq(meetings, 1, Len(meetings) - 1), m),
                meetings[Len(meetings)])

\* _load_extra_meetings: the extra meetings whose date is not in the calendar
\* are appended, and the calendar is sorted by date
RECURSIVE _load_extra_meetings(_, _)
_load_extra_meetings(meetings, extra) ==
    IF extra = <<>> THEN meetings
    ELSE _load_extra_meetings(
            IF \E i \in DOMAIN meetings : meetings[i].end_date = extra[1].end_date
            THEN meetings
            ELSE InsertMeeting(meetings, extra[1]),
            Tail(extra))

\* variant: the blackout starts on the third Saturday before the meeting
_blackout_start_ThirdSaturday(meeting) ==
    LET days_to_saturday == (weekday(meeting.start_date) - 5) % 7
    IN  (meeting.start_date - (IF days_to_saturday # 0 THEN days_to_saturday ELSE 7)) - 14

\* the second Saturday before meeting.start_date (`days_to_saturday or 7`)
_blackout_start(meeting) ==
    LET days_to_saturday == (weekday(meeting.start_date) - 5) % 7
    IN  (meeting.start_date - (IF days_to_saturday # 0 THEN days_to_saturday ELSE 7)) - 7

\* `ref or date.today()`: a date is never falsy
RefOrToday(ref, today_date) == IF ref.none THEN today_date ELSE ref.value

\* for m in MEETINGS: if m.end_date >= ref: return m
RECURSIVE FirstFrom(_, _, _)
FirstFrom(meetings, i, ref) ==
    IF i > Len(meetings) THEN None
    ELSE IF meetings[i].end_date >= ref THEN meetings[i]
    ELSE FirstFrom(meetings, i + 1, ref)

get_next_meeting(meetings, ref, today_date) ==
    FirstFrom(meetings, 1, RefOrToday(ref, today_date))

\* prev = None; for m in MEETINGS: if m.end_date < ref: prev = m else: break
RECURSIVE LastBefore(_, _, _, _)
LastBefore(meetings, i, ref, prev) ==
    IF i > Len(meetings) THEN prev
    ELSE IF meetings[i].end_date < ref THEN LastBefore(meetings, i + 1, ref, meetings[i])
    ELSE prev

\* variant: a meeting that ends on ref counts as previous
get_previous_meeting_Inclusive(meetings, ref, today_date) ==
    LastBefore(meetings, 1, RefOrToday(ref, today_date) + 1, None)

get_previous_meeting(meetings, ref, today_date) ==
    LastBefore(meetings, 1, RefOrToday(ref, today_date), None)

\* None, or (nxt.end_date - ref).days
days_until_next_meeting(meetings, ref, today_date) ==
    IF get_next_meeting(meetings, ref, today_date) = None THEN None
    ELSE Some(get_next_meeting(meetings, ref, today_date).end_date
                - RefOrToday(ref, today_date))

\* seq[start:] of Python, for a start of either sign
SliceFrom(seq, start) ==
    SubSeq(seq,
           (IF start < 0 THEN Max(Len(seq) + start, 0) ELSE Min(start, Len(seq))) + 1,
           Len(seq))

\* past = [m for m in MEETINGS if m.end_date < ref and m.decision is not None]
\* return past[-n:]
get_past_meetings(meetings, n, ref, today_date) ==
    SliceFrom(SelectSeq(meetings,
                        LAMBDA m : /\ m.end_date < RefOrToday(ref, today_date)
                                   /\ ~m.decision.none),
              -n)

\* (prev.rate_lower, prev.rate_upper), or None
get_current_rate(meetings, ref, today_date) ==
    IF get_previous_meeting(meetings, ref, today_date) = None THEN None
    ELSE IF get_previous_meeting(meetings, ref, today_date).rate_upper.none THEN None
    ELSE Some(<<get_previous_meeting(meetings, ref, today_date).rate_lower.value,
                get_previous_meeting(meetings, ref, today_date).rate_upper.value>>)

\* ------------------------------------------------------------------------
\* The calendar functions, called on every day of the calendar
\* ------------------------------------------------------------------------
\* EXTRA_MEETINGS of a local boe_meetings module: an earlier hike, and a
\* meeting on a date the calendar already has
EXTRA_MEETINGS ==
    << MPCMeeting(date(2025, 3, 20), Some("+25"), Some(475)),
       MPCMeeting(date(2024, 12, 19), Some("+25"), Some(475)) >>

Calendars == {MEETINGS, _load_extra_meetings(BOE_MEETINGS, EXTRA_MEETINGS)}

\* the days date.today() ranges over: from before the first meeting to
\* after the last one
CalendarDays == date(2024, 12, 1)..date(2027, 1, 15)

\* date.today(), `today` being its ISO form
TodayDate == fromisoformat(today)

\* the ref arguments: omitted, or the date of the calendar test
RefArgs == {None, Some(date(2026, 2, 15))}

\* the n arguments of get_past_meetings
PastCounts == {0, 1, 4, 6, 10}

\* a meeting starting on each day of one week, of one day and of two days
WeekdayMeetings ==
    {Scheduled(d, d + days) : d \in date(2026, 3, 16)..date(2026, 3, 22), days \in {0, 1}}

CalendarCall(op, meetings, ref, n, returned) ==
    [op |-> op, meetings |-> meetings, ref |-> ref,
     ref_date |-> RefOrToday(ref, TodayDate), n |-> n, returned |-> returned]

CalendarFrame ==
    UNCHANGED <<_CLASSIFIERS, _SOURCES, environ, NEWS_DIR, HISTORY_FILE, today, pending>>

\* _blackout_start of a meeting of any weekday, or of the next meeting
BlackoutStart ==
    /\ \E meetings \in Calendars :
        \E meeting \in WeekdayMeetings \cup
                ({get_next_meeting(meetings, None, TodayDate)} \ {None}) :
            last' = [op |-> "_blackout_start", meeting |-> meeting,
                     returned |-> _blackout_start(meeting)]
    /\ CalendarFrame

GetNextMeeting ==
    /\ \E meetings \in Calendars, ref \in RefArgs :
        last' = CalendarCall("get_next_meeting", meetings, ref, 0,
                             get_next_meeting(meetings, ref, TodayDate))
    /\ CalendarFrame

GetPreviousMeeting ==
    /\ \E meetings \in Calendars, ref \in RefArgs :
        last' = CalendarCall("get_previous_meeting", meetings, ref, 0,
                             get_previous_meeting(meetings, ref, TodayDate))
    /\ CalendarFrame

DaysUntilNextMeeting ==
    /\ \E meetings \in Calendars, ref \in RefArgs :
        last' = CalendarCall("days_until_next_meeting", meetings, ref, 0,
                             days_until_next_meeting(meetings, ref, TodayDate))
    /\ CalendarFrame

GetPastMeetings ==
    /\ \E meetings \in Calendars, ref \in RefArgs, n \in PastCounts :
        last' = CalendarCall("get_past_meetings", meetings, ref, n,
                             get_past_meetings(meetings, n, ref, TodayDate))
    /\ CalendarFrame

NextCalendar ==
    \/ BlackoutStart
    \/ GetNextMeeting
    \/ GetPreviousMeeting
    \/ DaysUntilNextMeeting
    \/ GetPastMeetings

InitCalendar ==
    /\ _CLASSIFIERS = <<>>
    /\ _SOURCES = BUILTIN_SOURCES
    /\ environ = {}
    /\ NEWS_DIR = <<>>
    /\ HISTORY_FILE = NoFile
    /\ today \in {isoformat(d) : d \in CalendarDays}
    /\ last = NoCall
    /\ pending = <<>>

SpecCalendar == InitCalendar /\ [][NextCalendar]_vars

\* C17 (as stated): for every meeting, the decision date minus its
\* _blackout_start is at least 14 days.
C17_BlackoutAtLeast14Days ==
    last.op = "_blackout_start" =>
        last.meeting.end_date - last.returned >= 14

\* C17: for every meeting, on whichever weekday it starts, _blackout_start is
\* a Saturday that lies at least 8 and at most 14 days before the meeting's
\* start date: the second Saturday strictly before it.
C17_BlackoutSecondSaturday ==
    last.op = "_blackout_start" =>
        /\ weekday(last.returned) = 5
        /\ last.meeting.start_date - last.returned \in 8..14

\* a scheduled two-day meeting starting on a Tuesday: the blackout starts
\* 10 days before its start, 11 before its decision
C17_Witness ==
    /\ last.op = "_blackout_start"
    /\ last.meeting \in Range(MEETINGS)
    /\ weekday(last.meeting.start_date) = 1
    /\ last.meeting.end_date - last.returned = 11

\* a meeting starting on a Saturday: the blackout starts 14 days before
C17_WitnessSaturday ==
    /\ last.op = "_blackout_start"
    /\ weekday(last.meeting.start_date) = 5
    /\ last.meeting.start_date - last.returned = 14

\* the positions of the meetings decided on or after ref, and before it
OnOrAfter(meetings, ref) == {i \in DOMAIN meetings : meetings[i].end_date >= ref}

Before(meetings, ref) == {i \in DOMAIN meetings : meetings[i].end_date < ref}

SortedByDate(meetings) ==
    \A i, j \in DOMAIN meetings : i < j => meetings[i].end_date < meetings[j].end_date

\* C18: on a calendar sorted by decision date, get_next_meeting(ref) is the
\* earliest meeting decided on or after ref and get_previous_meeting(ref) the
\* latest meeting decided before ref, each None when there is none; so
\* previous.date < ref <= next.date, no meeting lies strictly between the
\* two, and days_until_next_meeting(ref) is next.date - ref >= 0 unless None.
C18_CalendarLookup ==
    (last.op \in {"get_next_meeting", "get_previous_meeting", "days_until_next_meeting"}
     /\ SortedByDate(last.meetings)) =>
        LET meetings == last.meetings
            ref == last.ref_date
            nxt == get_next_meeting(meetings, last.ref, TodayDate)
            prev == get_previous_meeting(meetings, last.ref, TodayDate)
        IN  /\ last.op = "get_next_meeting" => last.returned = nxt
            /\ last.op = "get_previous_meeting" => last.returned = prev
            /\ nxt = (IF OnOrAfter(meetings, ref) = {} THEN None
                      ELSE meetings[CHOOSE i \in OnOrAfter(meetings, ref) :
                                        \A j \in OnOrAfter(meetings, ref) : i <= j])
            /\ prev = (IF Before(meetings, ref) = {} THEN None
                       ELSE meetings[CHOOSE i \in Before(meetings, ref) :
                                         \A j \in Before(meetings, ref) : j <= i])
            /\ prev # None => prev.end_date < ref
            /\ nxt # None => ref <= nxt.end_date
            /\ (prev # None /\ nxt # None) =>
                    ~\E i \in DOMAIN meetings :
                        /\ prev.end_date < meetings[i].end_date
                        /\ meetings[i].end_date < nxt.end_date
            /\ last.op = "days_until_next_meeting" =>
                    IF nxt = None THEN last.returned = None
                    ELSE /\ last.returned = Some(nxt.end_date - ref)
                         /\ last.returned.value >= 0

\* get_previous_meeting on the decision day of a meeting that has an earlier
\* one: the meeting of that day is the next one, not the previous one
C18_Witness ==
    /\ last.op = "get_previous_meeting"
    /\ last.returned # None
    /\ get_next_meeting(last.meetings, last.ref, TodayDate) # None
    /\ get_next_meeting(last.meetings, last.ref, TodayDate).end_date = last.ref_date
    /\ last.ref = None

\* after the last meeting of the calendar there is no next meeting
C18_WitnessNone ==
    /\ last.op = "days_until_next_meeting"
    /\ last.returned = None

\* the meetings decided before ref with a recorded decision
Decided(meetings, ref) ==
    SelectSeq(meetings, LAMBDA m : m.end_date < ref /\ ~m.decision.none)

\* C19: get_past_meetings(n, ref), n >= 0, returns in chronological order
\* exactly the last min(n, k) of the k meetings decided before ref with a
\* recorded decision: never more than n meetings (none when n = 0) and never
\* a meeting without a decision.
C19_PastMeetingsLastN ==
    (last.op = "get_past_meetings" /\ last.n >= 0) =>
        LET past == Decided(last.meetings, last.ref_date)
            k == Len(past)
        IN  /\ last.returned = SubSeq(past, k - Min(last.n, k) + 1, k)
            /\ Len(last.returned) <= last.n
            /\ \A i \in DOMAIN last.returned : ~last.returned[i].decision.none

\* Supporting property: the same statement for n >= 1.
PastMeetingsPositiveN ==
    (last.op = "get_past_meetings" /\ last.n >= 1) =>
        LET past == Decided(last.meetings, last.ref_date)
            k == Len(past)
        IN  /\ last.returned = SubSeq(past, k - Min(last.n, k) + 1, k)
            /\ Len(last.returned) <= last.n
            /\ \A i \in DOMAIN last.returned : ~last.returned[i].decision.none

\* get_past_meetings(0, ref) returns every decided meeting before ref
PastMeetingsZeroReached ==
    /\ last.op = "get_past_meetings"
    /\ last.n = 0
    /\ Len(last.returned) = 9

\* ------------------------------------------------------------------------
\* Committee signal (policy_signal.py); role weights in hundredths
\* ------------------------------------------------------------------------
\* A Participant of either tracker.  fomc_tracker has is_voter_2026 and
\* is_governor; boe_tracker has is_voter (kept in is_voter_2026 here) and
\* role_type.
Member(name, title, is_voter_2026, is_governor, role_type, lean, bs_lean) ==
    [name |-> name, title |-> title, is_voter_2026 |-> is_voter_2026,
     is_governor |-> is_governor, role_type |-> role_type,
     historical_lean |-> lean, historical_balance_sheet_lean |-> bs_lean]

\* fomc_tracker PARTICIPANTS: one participant of each kind the weight
\* function tells apart, and the participant of SEED_DATA
FOMC_PARTICIPANTS ==
    << Member("Kevin M. Warsh", "Nominated Fed Chair", FALSE, FALSE, "", 2750, 2500),
       Member("Jerome H. Powell", "Chair", TRUE, TRUE, "", 250, 250),
       Member("Philip N. Jefferson", "Vice Chair", TRUE, TRUE, "", -500, -250),
       Member("Michael S. Barr", "Vice Chair for Supervision", TRUE, TRUE, "", -1000, -500),
       Member("Michelle W. Bowman", "Governor", TRUE, TRUE, "", 2750, 1750),
       Member("John C. Williams", "President", TRUE, FALSE, "", -250, 500),
       Member("Lorie K. Logan", "President", FALSE, FALSE, "", 2000, -1000) >>

\* boe_tracker PARTICIPANTS: one member of each role_type
MPC_PARTICIPANTS ==
    << Member("Andrew Bailey", "Governor", TRUE, FALSE, "Governor", 250, 250),
       Member("Sarah Breeden", "Deputy Governor, Financial Stability", TRUE, FALSE,
              "Deputy Governor", -250, 0),
       Member("Huw Pill", "Chief Economist", TRUE, FALSE, "Chief Economist", 1000, 500),
       Member("Swati Dhingra", "External Member", TRUE, FALSE, "External Member",
              -2000, -500) >>

\* EXTRA_PARTICIPANTS of a local boe_participants module
EXTRA_PARTICIPANTS ==
    << Member("Ada Newcomer", "Observer", FALSE, FALSE, "Observer", 2000, 1000) >>

\* policy_signal.ROLE_WEIGHTS of fomc_tracker
ROLE_WEIGHTS ==
    ("Chair" :> 300) @@ ("Vice Chair" :> 150) @@ ("Vice Chair for Supervision" :> 125) @@
    ("Governor" :> 100) @@ ("President_voter" :> 100) @@ ("President_alt" :> 25)

\* defaults.ROLE_WEIGHTS of boe_tracker
BOE_ROLE_WEIGHTS ==
    ("Governor" :> 300) @@ ("Deputy Governor" :> 150) @@ ("Chief Economist" :> 125) @@
    ("External Member" :> 100)

\* config.py: a dict of local/boe_config.py is merged over the default one
MergedConfig(default, local) == local @@ default

\* fomc_tracker _participant_weight
_participant_weight(p) ==
    IF p.title = "Chair" THEN ROLE_WEIGHTS["Chair"]
    ELSE IF p.title = "Vice Chair" THEN ROLE_WEIGHTS["Vice Chair"]
    ELSE IF p.title = "Vice Chair for Supervision"
         THEN ROLE_WEIGHTS["Vice Chair for Supervision"]
    ELSE IF p.is_governor THEN ROLE_WEIGHTS["Governor"]
    ELSE IF p.is_voter_2026 THEN ROLE_WEIGHTS["President_voter"]
    ELSE ROLE_WEIGHTS["President_alt"]

\* boe_tracker _participant_weight: ROLE_WEIGHTS.get(p.role_type, 1.0)
boe_participant_weight(role_weights, p) ==
    IF p.role_type \in DOMAIN role_weights THEN role_weights[p.role_type] ELSE 100

\* One tracker as configured: its PARTICIPANTS, ROLE_WEIGHTS and MEETINGS
Tracker(engine, participants, role_weights, meetings) ==
    [engine |-> engine, PARTICIPANTS |-> participants, ROLE_WEIGHTS |-> role_weights,
     MEETINGS |-> meetings]

WeightOf(tracker, p) ==
    IF tracker.engine = "fomc" THEN _participant_weight(p)
    ELSE boe_participant_weight(tracker.ROLE_WEIGHTS, p)

\* p.historical_lean if score_key == "score" else (p.historical_lean if
\* score_key == "policy_score" else p.historical_balance_sheet_lean)
LeanFor(p, score_key) ==
    IF score_key = "score" THEN p.historical_lean
    ELSE IF score_key = "policy_score" THEN p.historical_lean
    ELSE p.historical_balance_sheet_lean

\* entry.get(score_key, entry.get("score", 0))
ScoreIn(entry, score_key) ==
    IF score_key \in DOMAIN entry THEN entry[score_key]
    ELSE IF "score" \in DOMAIN entry THEN entry.score
    ELSE 0

\* the score of one participant in compute_weighted_signal: ref_date is a
\* parameter of the function that its body never reads
ResolvedScore(file, p, score_key, ref_date) ==
    LET Resolve(latest) ==
            IF latest = None THEN LeanFor(p, score_key) ELSE ScoreIn(latest, score_key)
    IN  Resolve(get_latest_stance(file, p.name))

RECURSIVE SumSeq(_)
SumSeq(seq) == IF seq = <<>> THEN 0 ELSE Head(seq) + SumSeq(Tail(seq))

\* sorted(contributions, key=weighted_contribution, reverse=True): stable
RECURSIVE InsertByContribution(_, _)
InsertByContribution(sorted, c) ==
    IF sorted = <<>> THEN <<c>>
    ELSE IF Head(sorted).weighted_contribution >= c.weighted_contribution
         THEN <<Head(sorted)>> \o InsertByContribution(Tail(sorted), c)
         ELSE <<c>> \o sorted

RECURSIVE SortByContribution(_)
SortByContribution(contributions) ==
    IF contributions = <<>> THEN <<>>
    ELSE InsertByContribution(
            SortByContribution(SubSeq(contributions, 1, Len(contributions) - 1)),
            contributions[Len(contributions)])

\* x / n if n else 0.0
Average(x, n) == IF n # 0 THEN Rat(x, n) ELSE FromMilli(0)

\* the sums of compute_weighted_signal and the dict it returns;
\* weighted_contribution is in thousandths times hundredths
Totals(contributions) ==
    [weighted_score |->
        Round3(Average(SumSeq([i \in DOMAIN contributions |->
                                    contributions[i].weighted_contribution]),
                       SumSeq([i \in DOMAIN contributions |-> contributions[i].weight]))),
     simple_average |->
        Round3(Average(SumSeq([i \in DOMAIN contributions |-> contributions[i].score]),
                       Len(contributions))),
     voter_average |->
        Round3(Average(SumSeq([i \in DOMAIN contributions |->
                                    IF contributions[i].voter THEN contributions[i].score
                                    ELSE 0]),
                       Cardinality({i \in DOMAIN contributions : contributions[i].voter}))),
     participant_contributions |-> SortByContribution(contributions),
     total_weight |-> SumSeq([i \in DOMAIN contributions |-> contributions[i].weight])]

Contribution(p, score, w) ==
    [name |-> p.name, score |-> score, weight |-> w, weighted_contribution |-> score * w,
     voter |-> p.is_voter_2026, role |-> p.title]

compute_weighted_signal(file, tracker, score_key, ref_date) ==
    Totals([i \in DOMAIN tracker.PARTICIPANTS |->
                Contribution(tracker.PARTICIPANTS[i],
                             ResolvedScore(file, tracker.PARTICIPANTS[i], score_key, ref_date),
                             WeightOf(tracker, tracker.PARTICIPANTS[i]))])

\* ------------------------------------------------------------------------
\* Implied rate action
\* ------------------------------------------------------------------------
ActionRow(min_s, max_s, label, dirn, mag) ==
    [min_s |-> min_s, max_s |-> max_s, label |-> label, dirn |-> dirn, mag |-> mag]

\* (min_score, max_score, action_label, direction, magnitude_bp)
_ACTION_THRESHOLDS ==
    << ActionRow(-5000, -3500, "Cut 50bp", "easing", 50),
       ActionRow(-3500, -2000, "Cut 25bp", "easing", 25),
       ActionRow(-2000, -500, "Lean Cut", "easing", 25),
       ActionRow(-500, 500, "Hold", "neutral", 0),
       ActionRow(500, 2000, "Lean Hike", "tightening", 25),
       ActionRow(2000, 3500, "Hike 25bp", "tightening", 25),
       ActionRow(3500, 5000, "Hike 50bp", "tightening", 50) >>

\* variant: a score on a boundary belongs to the row below it
InRow_UpperClosed(row, r) == row.min_s * r.d < r.n /\ r.n <= row.max_s * r.d

\* min_s <= weighted_score < max_s, for a score r = n/d with d > 0
InRow(row, r) == row.min_s * r.d <= r.n /\ r.n < row.max_s * r.d

\* the row the for loop stops at; the else branch of the loop when it stops
\* at none: the top row from 3.5 up, the initial Hold otherwise
ActionOf(r) ==
    IF \E i \in DOMAIN _ACTION_THRESHOLDS : InRow(_ACTION_THRESHOLDS[i], r)
    THEN _ACTION_THRESHOLDS[Least({i \in DOMAIN _ACTION_THRESHOLDS :
                                        InRow(_ACTION_THRESHOLDS[i], r)})]
    ELSE IF r.n >= 3500 * r.d THEN ActionRow(3500, 5000, "Hike 50bp", "tightening", 50)
    ELSE ActionRow(0, 0, "Hold", "neutral", 0)

ConfidenceOf(r) ==
    IF Abs(r.n) < 500 * r.d THEN "high"
    ELSE IF Abs(r.n) < 1000 * r.d THEN "moderate"
    ELSE IF Abs(r.n) < 2000 * r.d THEN "moderate"
    ELSE "high"

\* the projected range (the projected Bank Rate twice, for boe_tracker);
\* magnitude_bp / 100.0 percent is magnitude_bp hundredths
ProjectedRate(current_rate, row) ==
    IF current_rate.none \/ row.mag <= 0 THEN None
    ELSE IF row.dirn = "easing"
         THEN Some(<<current_rate.value[1] - row.mag, current_rate.value[2] - row.mag>>)
         ELSE Some(<<current_rate.value[1] + row.mag, current_rate.value[2] + row.mag>>)

implied_rate_action(meetings, today_date, weighted_score) ==
    LET Result(row) ==
            [action |-> row.label, direction |-> row.dirn, magnitude_bp |-> row.mag,
             confidence |-> ConfidenceOf(weighted_score),
             projected_rate |->
                ProjectedRate(get_current_rate(meetings, None, today_date), row)]
    IN  Result(ActionOf(weighted_score))

\* ------------------------------------------------------------------------
\* Backtest
\* ------------------------------------------------------------------------
\* closest = None; for e in entries: if e["date"] <= d: closest = e else: break
RECURSIVE Closest(_, _, _, _)
Closest(entries, i, d, closest) ==
    IF i > Len(entries) THEN closest
    ELSE IF entries[i].date <= d THEN Closest(entries, i + 1, d, entries[i])
    ELSE closest

\* variant: the latest entry is taken whatever its date
ScoreAsOf_LooksAhead(history, p, score_key, d) ==
    LET Resolve(closest) ==
            IF closest = None
            THEN (IF score_key \in {"score", "policy_score"} THEN p.historical_lean
                  ELSE p.historical_balance_sheet_lean)
            ELSE ScoreIn(closest, score_key)
    IN  Resolve(Closest(EntriesOf(history, p.name), 1, 99991231, None))

\* the score of one participant as of the meeting date
ScoreAsOf(history, p, score_key, d) ==
    LET Resolve(closest) ==
            IF closest = None
            THEN (IF score_key \in {"score", "policy_score"} THEN p.historical_lean
                  ELSE p.historical_balance_sheet_lean)
            ELSE ScoreIn(closest, score_key)
    IN  Resolve(Closest(EntriesOf(history, p.name), 1, d, None))

\* weighted_sum / total_weight if total_weight else 0.0, not rounded
SignalAsOf(history, tracker, score_key, d) ==
    Average(SumSeq([i \in DOMAIN tracker.PARTICIPANTS |->
                        ScoreAsOf(history, tracker.PARTICIPANTS[i], score_key, d)
                            * WeightOf(tracker, tracker.PARTICIPANTS[i])]),
            SumSeq([i \in DOMAIN tracker.PARTICIPANTS |->
                        WeightOf(tracker, tracker.PARTICIPANTS[i])]))

\* variant: a decision with a minus sign counts as tightening
ActualDirection_Swapped(decision) ==
    IF decision.none THEN "neutral"
    ELSE IF MatchesAt(decision.value, "-") # {} THEN "tightening"
    ELSE IF MatchesAt(decision.value, "+") # {} THEN "easing"
    ELSE "neutral"

\* "easing" if "-" in actual else ("tightening" if "+" in actual else
\* "neutral"), actual being meeting.decision or "hold"
ActualDirection(decision) ==
    IF decision.none THEN "neutral"
    ELSE IF MatchesAt(decision.value, "-") # {} THEN "easing"
    ELSE IF MatchesAt(decision.value, "+") # {} THEN "tightening"
    ELSE "neutral"

\* the record of one meeting, without rate_range, vote_split, statement_note
BacktestRecord(meeting, action, signal_score) ==
    [meeting_date |-> isoformat(meeting.end_date), decision |-> meeting.decision,
     signal_score |-> Round3(signal_score), implied_action |-> action.action,
     implied_direction |-> action.direction,
     match |-> (action.direction = ActualDirection(meeting.decision))]

MeetingRecords(history, past, tracker, today_date, score_key) ==
    LET Record(meeting, signal_score) ==
            BacktestRecord(meeting,
                           implied_rate_action(tracker.MEETINGS, today_date, signal_score),
                           signal_score)
    IN  [i \in DOMAIN past |->
            Record(past[i], SignalAsOf(history, tracker, score_key,
                                       isoformat(past[i].end_date)))]

signal_vs_decisions(file, tracker, today_date, score_key, n_meetings) ==
    MeetingRecords(load_history(file),
                   get_past_meetings(tracker.MEETINGS, n_meetings, None, today_date),
                   tracker, today_date, score_key)

\* ------------------------------------------------------------------------
\* Meeting-to-meeting drift
\* ------------------------------------------------------------------------
\* drift thresholds in thousandths (0.3 and -0.3: literals in fomc_tracker,
\* defaults of the configuration in boe_tracker)
HAWKISH_DRIFT_THRESHOLD == 300

DOVISH_DRIFT_THRESHOLD == -300

\* current_signal - prev_signal, current_signal being a rounded value
Drift(current_signal, prev_signal) ==
    Rat(current_signal * prev_signal.d - prev_signal.n, prev_signal.d)

DriftDirection(drift) ==
    IF drift.n > HAWKISH_DRIFT_THRESHOLD * drift.d THEN "hawkish shift"
    ELSE IF drift.n < DOVISH_DRIFT_THRESHOLD * drift.d THEN "dovish shift"
    ELSE "stable"

\* None without a previous meeting; the signal as of the previous meeting is
\* rebuilt by the same closest-entry loop as in signal_vs_decisions
compute_meeting_drift(file, tracker, today_date, score_key) ==
    LET DriftOf(prev, prev_signal, current_signal) ==
            [previous_meeting_date |-> isoformat(prev.end_date),
             previous_decision |-> prev.decision,
             previous_signal |-> Round3(prev_signal),
             current_signal |-> Round3(FromMilli(current_signal)),
             drift |-> Round3(Drift(current_signal, prev_signal)),
             drift_direction |-> DriftDirection(Drift(current_signal, prev_signal))]
        Since(prev) ==
            IF prev = None THEN None
            ELSE DriftOf(prev,
                         SignalAsOf(load_history(file), tracker, score_key,
                                    isoformat(prev.end_date)),
                         compute_weighted_signal(file, tracker, score_key,
                                                 None).weighted_score)
    IN  Since(get_previous_meeting(tracker.MEETINGS, None, today_date))

\* ------------------------------------------------------------------------
\* The signal functions, called on the stores and trackers below
\* ------------------------------------------------------------------------
\* _load_extra_participants: the extra participants whose name is new
RECURSIVE _load_extra_participants(_, _)
_load_extra_participants(participants, extra) ==
    IF extra = <<>> THEN participants
    ELSE _load_extra_participants(
            IF \E i \in DOMAIN participants : participants[i].name = extra[1].name
            THEN participants
            ELSE Append(participants, extra[1]),
            Tail(extra))

\* ROLE_WEIGHTS dicts of a local boe_config module
LocalRoleWeights ==
    { <<>>,
      ("Governor" :> 0) @@ ("Deputy Governor" :> 0) @@ ("Chief Economist" :> 0) @@
      ("External Member" :> 0) @@ ("Observer" :> 0) }

FOMCTracker == Tracker("fomc", FOMC_PARTICIPANTS, ROLE_WEIGHTS, MEETINGS)

BOETrackers ==
    {Tracker("boe", MPC_PARTICIPANTS, BOE_ROLE_WEIGHTS, BOE_MEETINGS)} \cup
    {Tracker("boe", _load_extra_participants(MPC_PARTICIPANTS, EXTRA_PARTICIPANTS),
             MergedConfig(BOE_ROLE_WEIGHTS, local),
             _load_extra_meetings(BOE_MEETINGS, EXTRA_MEETINGS)) : local \in LocalRoleWeights}

Trackers == {FOMCTracker} \cup BOETrackers

\* an entry as add_stance(name, score, label, date=day,
\* balance_sheet_score=bs) stores it
Stance(day, score, bs) ==
    [date |-> day, score |-> score, label |-> hist_score_label(FromMilli(score)),
     source |-> "live", policy_score |-> score,
     policy_label |-> hist_score_label(FromMilli(score)),
     balance_sheet_score |-> bs, balance_sheet_label |-> hist_score_label(FromMilli(bs))]

\* a store in which every MPC member moved from hike to cut to hold
BacktestFile ==
    FileOf([name \in {"Andrew Bailey", "Sarah Breeden", "Huw Pill", "Swati Dhingra",
                      "Ada Newcomer"} |->
                << Stance(20241201, 3000, 2500), Stance(20250115, -3000, -2500),
                   Stance(20250220, 0, 250), Stance(20260101, 1000, 750) >>])

\* a store with entries of FOMC participants around a meeting
MixedFile ==
    FileOf(("Jerome H. Powell" :> << Stance(20250101, -1000, 500),
                                     Stance(20260201, 4000, -2000) >>) @@
           ("Lorie K. Logan" :> << LegacyEntry(20250310, -3000, "Dovish"),
                                   Stance(20251215, 0, 0) >>))

SignalFiles == {NoFile, BacktestFile, MixedFile}

\* the days the functions are called on
SignalDays == {20250401, TODAY}

ScoreKeys == {"score", "policy_score", "balance_sheet_score"}

\* ref_date arguments: omitted, or a day between the two seed dates
RefDateArgs == {None, Some(date(2025, 12, 31))}

\* weighted_score arguments, in thousandths: every half point from -6 to 6,
\* the thousandths on either side of each boundary, and two thirds
ActionScores ==
    {FromMilli(500 * k) : k \in -12..12} \cup
    {FromMilli(b + e) : b \in {-5000, -3500, -2000, -500, 500, 2000, 3500, 5000},
                        e \in {-1, 1}} \cup
    {Rat(-10499, 3), Rat(1499, 3)}

\* n_meetings arguments
MeetingCounts == {3, 6}

SignalFrame ==
    UNCHANGED <<_CLASSIFIERS, _SOURCES, environ, NEWS_DIR, HISTORY_FILE, today, pending>>

ParticipantWeight ==
    /\ \E tracker \in Trackers :
        \E i \in DOMAIN tracker.PARTICIPANTS :
            last' = [op |-> "_participant_weight", tracker |-> tracker,
                     p |-> tracker.PARTICIPANTS[i],
                     returned |-> WeightOf(tracker, tracker.PARTICIPANTS[i])]
    /\ SignalFrame

ComputeWeightedSignal ==
    /\ \E tracker \in Trackers, score_key \in ScoreKeys, ref_date \in RefDateArgs :
        last' = [op |-> "compute_weighted_signal", tracker |-> tracker,
                 score_key |-> score_key, ref_date |-> ref_date,
                 returned |-> compute_weighted_signal(HISTORY_FILE, tracker, score_key,
                                                      ref_date)]
    /\ SignalFrame

ImpliedRateAction ==
    /\ \E meetings \in Calendars, weighted_score \in ActionScores :
        last' = [op |-> "implied_rate_action", meetings |-> meetings,
                 weighted_score |-> weighted_score,
                 returned |-> implied_rate_action(meetings, TodayDate, weighted_score)]
    /\ SignalFrame

SignalVsDecisions ==
    /\ \E tracker \in Trackers, score_key \in ScoreKeys, n_meetings \in MeetingCounts :
        last' = [op |-> "signal_vs_decisions", tracker |-> tracker,
                 score_key |-> score_key, n_meetings |-> n_meetings,
                 returned |-> signal_vs_decisions(HISTORY_FILE, tracker, TodayDate,
                                                  score_key, n_meetings)]
    /\ SignalFrame

ComputeMeetingDrift ==
    /\ \E tracker \in Trackers, score_key \in ScoreKeys :
        last' = [op |-> "compute_meeting_drift", tracker |-> tracker,
                 score_key |-> score_key,
                 returned |-> compute_meeting_drift(HISTORY_FILE, tracker, TodayDate,
                                                    score_key)]
    /\ SignalFrame

NextSignal ==
    \/ ComputeMeetingDrift
    \/ ParticipantWeight
    \/ ComputeWeightedSignal
    \/ ImpliedRateAction
    \/ SignalVsDecisions

InitSignal ==
    /\ _CLASSIFIERS = <<>>
    /\ _SOURCES = BUILTIN_SOURCES
    /\ environ = {}
    /\ NEWS_DIR = <<>>
    /\ HISTORY_FILE \in SignalFiles
    /\ today \in SignalDays
    /\ last = NoCall
    /\ pending = <<>>

SpecSignal == InitSignal /\ [][NextSignal]_vars

IsWeightedSignal == last.op = "compute_weighted_signal"

ScoresOf(signal) ==
    {signal.participant_contributions[i].score : i \in DOMAIN signal.participant_contributions}

\* C13: for every roster, every set of resolved scores and every assignment
\* of non-negative role weights, zero weights included, the weighted_score
\* that compute_weighted_signal returns lies within [min(scores),
\* max(scores)], and so does simple_average.
C13_WeightedSignalBound ==
    IsWeightedSignal =>
        /\ Least(ScoresOf(last.returned)) <= last.returned.weighted_score
        /\ last.returned.weighted_score <= Greatest(ScoresOf(last.returned))
        /\ Least(ScoresOf(last.returned)) <= last.returned.simple_average
        /\ last.returned.simple_average <= Greatest(ScoresOf(last.returned))

\* Supporting property: the bound holds whenever some weight is positive.
BoundForPositiveTotal ==
    (IsWeightedSignal /\ last.returned.total_weight > 0) =>
        /\ Least(ScoresOf(last.returned)) <= last.returned.weighted_score
        /\ last.returned.weighted_score <= Greatest(ScoresOf(last.returned))
        /\ Least(ScoresOf(last.returned)) <= last.returned.simple_average
        /\ last.returned.simple_average <= Greatest(ScoresOf(last.returned))

\* every weight is zero, every score is 1.0, and the weighted score is 0.0
ZeroWeightsReached ==
    /\ IsWeightedSignal
    /\ last.returned.total_weight = 0
    /\ ScoresOf(last.returned) = {1000}
    /\ last.returned.weighted_score = 0

\* the entries of `name` dated on or before ref_date, all of them when
\* ref_date is omitted
EntriesAsOf(history, name, ref_date) ==
    SelectSeq(EntriesOf(history, name),
              LAMBDA e : ref_date.none \/ e.date <= isoformat(ref_date.value))

\* the score the claim describes
ScoreAsOfRef(history, p, score_key, ref_date) ==
    IF EntriesAsOf(history, p.name, ref_date) = <<>> THEN LeanFor(p, score_key)
    ELSE ScoreIn(EntriesAsOf(history, p.name, ref_date)
                    [Len(EntriesAsOf(history, p.name, ref_date))], score_key)

MemberNamed(tracker, name) ==
    CHOOSE p \in Range(tracker.PARTICIPANTS) : p.name = name

\* C14: compute_weighted_signal(score_key, ref_date) resolves each
\* participant's score as of ref_date: from the latest stored entry dated on
\* or before ref_date when it is given, from the overall latest entry when
\* it is omitted, taking the requested dimension's value, and from the
\* participant's baseline lean for that dimension when there is no such
\* entry.
C14_ScoreResolvedAsOfRefDate ==
    IsWeightedSignal =>
        \A i \in DOMAIN last.returned.participant_contributions :
            last.returned.participant_contributions[i].score =
                ScoreAsOfRef(load_history(HISTORY_FILE),
                             MemberNamed(last.tracker,
                                         last.returned.participant_contributions[i].name),
                             last.score_key, last.ref_date)

\* Supporting property: the same statement for calls without ref_date.
ScoreResolvedWithoutRefDate ==
    (IsWeightedSignal /\ last.ref_date = None) =>
        \A i \in DOMAIN last.returned.participant_contributions :
            last.returned.participant_contributions[i].score =
                ScoreAsOfRef(load_history(HISTORY_FILE),
                             MemberNamed(last.tracker,
                                         last.returned.participant_contributions[i].name),
                             last.score_key, last.ref_date)

\* a call with ref_date between the seed dates uses the later seed entry
RefDateIgnoredReached ==
    /\ IsWeightedSignal
    /\ last.ref_date = Some(date(2025, 12, 31))
    /\ last.score_key = "score"
    /\ HISTORY_FILE = NoFile
    /\ \E i \in DOMAIN last.returned.participant_contributions :
        /\ last.returned.participant_contributions[i].name = "Lorie K. Logan"
        /\ last.returned.participant_contributions[i].score = 2000

\* the role of a participant: the title for the FOMC, the role_type for
\* the MPC
RoleOf(tracker, p) == IF tracker.engine = "fomc" THEN p.title ELSE p.role_type

\* C15: in both engines a participant's weight is the role-weight table
\* entry for exactly that participant's role, and 1.0 when the table has no
\* entry for that role.
C15_RoleWeightLookup ==
    last.op = "_participant_weight" =>
        last.returned =
            IF RoleOf(last.tracker, last.p) \in DOMAIN last.tracker.ROLE_WEIGHTS
            THEN last.tracker.ROLE_WEIGHTS[RoleOf(last.tracker, last.p)]
            ELSE 100

\* Supporting property: the same statement for the BOE engine.
RoleWeightLookupBOE ==
    (last.op = "_participant_weight" /\ last.tracker.engine = "boe") =>
        last.returned =
            IF RoleOf(last.tracker, last.p) \in DOMAIN last.tracker.ROLE_WEIGHTS
            THEN last.tracker.ROLE_WEIGHTS[RoleOf(last.tracker, last.p)]
            ELSE 100

\* a participant whose title is not in the FOMC table weighs 0.25
UnlistedTitleReached ==
    /\ last.op = "_participant_weight"
    /\ last.tracker.engine = "fomc"
    /\ last.p.title = "Nominated Fed Chair"
    /\ last.returned = 25

\* the rows whose interval holds the score n/d
RowsHolding(r) ==
    {i \in DOMAIN _ACTION_THRESHOLDS :
        /\ _ACTION_THRESHOLDS[i].min_s * r.d <= r.n
        /\ r.n < _ACTION_THRESHOLDS[i].max_s * r.d}

Returns(result, row) ==
    /\ result.action = row.label
    /\ result.direction = row.dirn
    /\ result.magnitude_bp = row.mag

\* C16: consecutive rows of the action-threshold table share their
\* endpoints and the table spans -5 to 5, so every score in [-5, 5) lies in
\* exactly one row, whose label, direction and magnitude implied_rate_action
\* returns, and the score 5.0 returns Hike 50bp, tightening, 50.
C16_ImpliedActionTotal ==
    /\ _ACTION_THRESHOLDS[1].min_s = -5000
    /\ _ACTION_THRESHOLDS[Len(_ACTION_THRESHOLDS)].max_s = 5000
    /\ \A i \in DOMAIN _ACTION_THRESHOLDS : _ACTION_THRESHOLDS[i].min_s < _ACTION_THRESHOLDS[i].max_s
    /\ \A i \in 1..(Len(_ACTION_THRESHOLDS) - 1) :
            _ACTION_THRESHOLDS[i].max_s = _ACTION_THRESHOLDS[i + 1].min_s
    /\ last.op = "implied_rate_action" =>
        /\ (/\ -5000 * last.weighted_score.d <= last.weighted_score.n
            /\ last.weighted_score.n < 5000 * last.weighted_score.d) =>
                /\ Cardinality(RowsHolding(last.weighted_score)) = 1
                /\ \A i \in RowsHolding(last.weighted_score) :
                        Returns(last.returned, _ACTION_THRESHOLDS[i])
        /\ last.weighted_score = FromMilli(5000) =>
                /\ last.returned.action = "Hike 50bp"
                /\ last.returned.direction = "tightening"
                /\ last.returned.magnitude_bp = 50

\* the score 5.0, which no row holds
C16_Witness ==
    /\ last.op = "implied_rate_action"
    /\ last.weighted_score = FromMilli(5000)
    /\ RowsHolding(last.weighted_score) = {}
    /\ last.returned.action = "Hike 50bp"

\* a score on the boundary of two rows belongs to the upper one
C16_WitnessBoundary ==
    /\ last.op = "implied_rate_action"
    /\ last.weighted_score = FromMilli(-500)
    /\ last.returned.action = "Hold"

\* the direction of a decision string
DecisionDirection(decision) ==
    IF \E i \in 1..Len(decision) : SubSeq(decision, i, i) = "-" THEN "easing"
    ELSE IF \E i \in 1..Len(decision) : SubSeq(decision, i, i) = "+" THEN "tightening"
    ELSE "neutral"

\* the positions of the entries of `name` dated on or before d
AtOrBefore(history, name, d) ==
    {i \in DOMAIN EntriesOf(history, name) : EntriesOf(history, name)[i].date <= d}

\* the as-of score of a participant: from the latest entry dated on or
\* before d, from the baseline lean when there is none
AsOfScore(history, p, score_key, d) ==
    IF AtOrBefore(history, p.name, d) = {}
    THEN (IF score_key = "balance_sheet_score" THEN p.historical_balance_sheet_lean
          ELSE p.historical_lean)
    ELSE ScoreIn(EntriesOf(history, p.name)[Greatest(AtOrBefore(history, p.name, d))],
                 score_key)

\* the as-of weighted signal of a meeting day d
AsOfSignal(history, tracker, score_key, d) ==
    Average(SumSeq([i \in DOMAIN tracker.PARTICIPANTS |->
                        AsOfScore(history, tracker.PARTICIPANTS[i], score_key, d)
                            * WeightOf(tracker, tracker.PARTICIPANTS[i])]),
            SumSeq([i \in DOMAIN tracker.PARTICIPANTS |->
                        WeightOf(tracker, tracker.PARTICIPANTS[i])]))

\* C20: signal_vs_decisions(score_key, n) emits one record per meeting of
\* get_past_meetings(n), in chronological order, and a record's match is
\* True exactly when the direction of implied_rate_action applied to the
\* meeting's as-of weighted signal equals the direction of the decision
\* (easing with a '-', tightening with a '+', neutral otherwise).
C20_BacktestMatchRule ==
    last.op = "signal_vs_decisions" =>
        LET Agrees(past, history) ==
                /\ Len(last.returned) = Len(past)
                /\ \A i \in DOMAIN past :
                    /\ last.returned[i].meeting_date = isoformat(past[i].end_date)
                    /\ last.returned[i].decision = past[i].decision
                    /\ last.returned[i].match =
                        (implied_rate_action(last.tracker.MEETINGS, TodayDate,
                                AsOfSignal(history, last.tracker, last.score_key,
                                           isoformat(past[i].end_date))).direction
                            = DecisionDirection(past[i].decision.value))
                /\ \A i, j \in DOMAIN last.returned :
                    i < j => last.returned[i].meeting_date < last.returned[j].meeting_date
        IN  Agrees(get_past_meetings(last.tracker.MEETINGS, last.n_meetings, None, TodayDate),
                    load_history(HISTORY_FILE))

\* three past meetings decided hike, cut, hold, with as-of signals in the
\* tightening, easing and hold bands: every record matches
C20_Witness ==
    /\ last.op = "signal_vs_decisions"
    /\ HISTORY_FILE = BacktestFile
    /\ Len(last.returned) = 3
    /\ [i \in 1..3 |-> last.returned[i].decision] = <<Some("+25"), Some("-25"), Some("hold")>>
    /\ [i \in 1..3 |-> last.returned[i].implied_direction]
            = <<"tightening", "easing", "neutral">>
    /\ \A i \in 1..3 : last.returned[i].match

\* a record that does not match: a cut decided while the signal says hold
C20_WitnessMiss ==
    /\ last.op = "signal_vs_decisions"
    /\ \E i \in DOMAIN last.returned :
        /\ last.returned[i].decision = Some("-25")
        /\ last.returned[i].implied_direction = "neutral"
        /\ ~last.returned[i].match

\* ------------------------------------------------------------------------
\* The keyword classifier, called directly
\* ------------------------------------------------------------------------
HawkishPhrases == DOMAIN POLICY_HAWKISH_TERMS \cup DOMAIN BS_HAWKISH_TERMS

DovishPhrases == DOMAIN POLICY_DOVISH_TERMS \cup DOMAIN BS_DOVISH_TERMS

\* the phrases that open a text of two phrases
LeadingHawkish == {"Patient", "unwind", "RATE  HIKE"}

LeadingDovish == {"Gradual", "reinvest", "RATE  CUT", "unemployment"}

\* texts of one phrase, or of two phrases separated by a space
PhraseTexts(leading, phrases) ==
    phrases \cup {a \o " " \o b : a \in leading, b \in phrases}

HawkishTexts == PhraseTexts(LeadingHawkish, HawkishPhrases)

DovishTexts == PhraseTexts(LeadingDovish, DovishPhrases)

\* texts in which no dictionary phrase occurs
PhraseFreeTexts ==
    {"", " ", "\t\n", "The committee met on Tuesday.", "rates", "Rate-Hikes",
     "tight en", "eas ing", "qt"}

\* texts with phrases of both directions or of both dimensions
MixedTexts ==
    {"rate hike and rate cut", "unwind the reinvestment", "gradual rate hike unwind",
     "patient patient patient patient patient patient patient patient patient patient patient patient patient unwind"}

KeywordTexts == HawkishTexts \cup DovishTexts \cup PhraseFreeTexts \cup MixedTexts

KeywordSnippetLists ==
    {<<>>, <<"">>, <<"", "rates">>, <<"rate hike", "">>, <<"rate cut", "unwind">>}

\* score arguments of the label functions, in thousandths: every quarter
\* point from -6 to 6, the thousandths and the thirds of a thousandth on
\* either side of the two thresholds, and two scores far outside the range
LabelScores ==
    {FromMilli(250 * k) : k \in -24..24} \cup
    {FromMilli(t + e) : t \in {-1500, 1500}, e \in {-1, 1}} \cup
    {Rat(3 * t + e, 3) : t \in {-1500, 1500}, e \in {-1, 1}} \cup
    {FromMilli(-1000000), FromMilli(1000000)}

\* the calls made: the function and, for the classifier, its argument
KeywordCalls ==
    {[op |-> "classify_text_keyword", input |-> text] : text \in KeywordTexts} \cup
    {[op |-> "classify_snippets_keyword", input |-> snippets] :
        snippets \in KeywordSnippetLists} \cup
    {[op |-> "score_label"]}

KeywordFrame ==
    UNCHANGED <<_CLASSIFIERS, _SOURCES, environ, NEWS_DIR, HISTORY_FILE, today, pending>>

ClassifyTextKeyword ==
    /\ pending.op = "classify_text_keyword"
    /\ last' = [op |-> "classify_text_keyword", input |-> pending.input,
                returned |-> classify_text_keyword(pending.input)]
    /\ KeywordFrame

ClassifySnippetsKeyword ==
    /\ pending.op = "classify_snippets_keyword"
    /\ last' = [op |-> "classify_snippets_keyword", input |-> pending.input,
                returned |-> classify_snippets_keyword(pending.input)]
    /\ KeywordFrame

\* config.score_label(score) and historical_data._score_label(score), called
\* on one score after another
ScoreLabel ==
    /\ pending.op = "score_label"
    /\ \E score \in LabelScores :
        last' = [op |-> "score_label", input |-> score,
                 returned |-> score_label(score),
                 historical |-> hist_score_label(score)]
    /\ KeywordFrame

NextKeyword == ClassifyTextKeyword \/ ClassifySnippetsKeyword \/ ScoreLabel

\* the state at the call: `pending` is the call being made
InitKeyword ==
    /\ _CLASSIFIERS = <<>>
    /\ _SOURCES = BUILTIN_SOURCES
    /\ environ = {}
    /\ NEWS_DIR = <<>>
    /\ HISTORY_FILE = NoFile
    /\ today = TODAY
    /\ last = NoCall
    /\ pending \in KeywordCalls

SpecKeyword == InitKeyword /\ [][NextKeyword]_vars

IsKeywordText == last.op = "classify_text_keyword"

\* C21: classify_text_keyword gives a text made only of hawkish-dictionary
\* phrases an overall score above 0, and a text made only of
\* dovish-dictionary phrases an overall score below 0.
C21_OneSidedTextSign ==
    IsKeywordText =>
        /\ last.input \in HawkishTexts => last.returned.score > 0
        /\ last.input \in DovishTexts => last.returned.score < 0

\* Supporting property: the hawkish half of the statement, and the dovish
\* half for the texts in which no hawkish term occurs as a substring.
OneSidedSignWithoutOverlap ==
    IsKeywordText =>
        /\ last.input \in HawkishTexts => last.returned.score > 0
        /\ (last.input \in DovishTexts /\ last.returned.hawkish_matches = <<>>)
                => last.returned.score < 0

\* a text of dovish phrases only was classified with a positive score
DovishTextScoredHawkish ==
    /\ IsKeywordText
    /\ last.input = "pause tightening"
    /\ last.returned.score = 2273
    /\ last.returned.label = "Hawkish"

\* some term of the four dictionaries occurs in the normalized text
ContainsPhrase(text) ==
    \E term \in HawkishPhrases \cup DovishPhrases :
        MatchesAt(_normalize(text), Lower(term)) # {}

\* the result with every score and the confidence 0, the three labels
\* Neutral and no matches
AllZeroNeutral(result, count) ==
    /\ result.score = 0 /\ result.policy_score = 0 /\ result.balance_sheet_score = 0
    /\ result.confidence = 0
    /\ result.label = "Neutral" /\ result.policy_label = "Neutral"
    /\ result.balance_sheet_label = "Neutral"
    /\ result.hawkish_matches = <<>> /\ result.dovish_matches = <<>>
    /\ result.snippet_count = count

\* C22: classify_text_keyword of the empty string, or of a text in which no
\* dictionary phrase occurs, returns scores 0, confidence 0, the three
\* labels Neutral and empty match lists; classify_snippets_keyword of the
\* empty list returns the same result with snippet_count 0.
C22_EmptyInputIsNeutral ==
    /\ (IsKeywordText /\ ~ContainsPhrase(last.input))
            => AllZeroNeutral(last.returned, 1)
    /\ (last.op = "classify_snippets_keyword" /\ last.input = <<>>)
            => AllZeroNeutral(last.returned, 0)

\* a non-empty text without a dictionary phrase has been classified
C22_Witness ==
    /\ IsKeywordText
    /\ last.input = "The committee met on Tuesday."
    /\ ~ContainsPhrase(last.input)
    /\ last.returned.label = "Neutral"

\* the empty text and the empty snippet list have been classified
C22_WitnessEmpty ==
    \/ IsKeywordText /\ last.input = "" /\ last.returned.snippet_count = 1
    \/ last.op = "classify_snippets_keyword" /\ last.input = <<>>
            /\ last.returned.snippet_count = 0

\* a <= b for scores
ScoreLeq(a, b) == a.n * b.d <= b.n * a.d

\* the order Dovish < Neutral < Hawkish
LabelRank == ("Dovish" :> 0) @@ ("Neutral" :> 1) @@ ("Hawkish" :> 2)

\* the label the statement gives a score: Dovish below -1.5, Hawkish above
\* 1.5, Neutral otherwise
LabelOf(score) ==
    IF ~ScoreLeq(FromMilli(-1500), score) THEN "Dovish"
    ELSE IF ~ScoreLeq(score, FromMilli(1500)) THEN "Hawkish"
    ELSE "Neutral"

\* C23: score_label returns Dovish exactly for scores below -1.5, Hawkish
\* exactly for scores above 1.5 and Neutral for every other score, both
\* thresholds included; of two calls the one with the lower score has the
\* lower or the same label in the order Dovish < Neutral < Hawkish; and
\* historical_data._score_label returns the same label as config.score_label.
C23_ScoreLabelMonotoneStep ==
    [][last'.op = "score_label" =>
            /\ last'.returned = LabelOf(last'.input)
            /\ last'.historical = last'.returned
            /\ (last.op = "score_label" /\ ScoreLeq(last.input, last'.input))
                    => LabelRank[last.returned] <= LabelRank[last'.returned]]_vars

\* score_label has been called on the hawkish threshold itself
C23_Witness ==
    /\ last.op = "score_label"
    /\ last.input = FromMilli(1500)
    /\ last.returned = "Neutral"

\* score_label has been called on a score a third of a thousandth above the
\* hawkish threshold
C23_WitnessAbove ==
    /\ last.op = "score_label"
    /\ last.input = Rat(4501, 3)
    /\ last.returned = "Hawkish"

\* the policy and the balance-sheet dimension of a text, as the classifier
\* scores them
PolicyDimension(text) ==
    _score_dimension(_normalize(text), POLICY_HAWKISH_TERMS, POLICY_DOVISH_TERMS)

BalanceSheetDimension(text) ==
    _score_dimension(_normalize(text), BS_HAWKISH_TERMS, BS_DOVISH_TERMS)

\* the overall confidence (thousandths) is the mean of the confidences
\* (fiftieths) of the dimensions that matched, and lies within [0, 1]
MeanOfMatched(confidence, p, b) ==
    /\ confidence \in 0..1000
    /\ (p.conf > 0 /\ b.conf = 0) => confidence = 20 * p.conf
    /\ (p.conf = 0 /\ b.conf > 0) => confidence = 20 * b.conf
    /\ (p.conf > 0 /\ b.conf > 0) => confidence = 10 * (p.conf + b.conf)

\* C27: the overall confidence of classify_text_keyword is the policy
\* confidence when only policy phrases match, the balance-sheet confidence
\* when only balance-sheet phrases match, the mean of the two when both
\* match, and always within [0, 1].
C27_OverallConfidence ==
    IsKeywordText =>
        MeanOfMatched(last.returned.confidence, PolicyDimension(last.input),
                      BalanceSheetDimension(last.input))

\* Supporting property: the statement for the texts in which a policy phrase
\* matches or nothing matches.
ConfidenceWithPolicyMatch ==
    (IsKeywordText /\ ~(PolicyDimension(last.input).conf = 0
                            /\ BalanceSheetDimension(last.input).conf > 0)) =>
        MeanOfMatched(last.returned.confidence, PolicyDimension(last.input),
                      BalanceSheetDimension(last.input))

\* a text with balance-sheet phrases only got half the balance-sheet
\* confidence
BalanceSheetOnlyHalved ==
    /\ IsKeywordText
    /\ last.input = "unwind"
    /\ PolicyDimension(last.input).conf = 0
    /\ 20 * BalanceSheetDimension(last.input).conf = 100
    /\ last.returned.confidence = 50

\* ------------------------------------------------------------------------
\* Registry operations: errors and frame
\* ------------------------------------------------------------------------
ClassifierFlagOps == {"enable_classifier", "disable_classifier"}

SourceFlagOps == {"enable_source", "disable_source"}

\* the names of the entries of a registry
NamesOf(reg) == {reg[i].name : i \in DOMAIN reg}

\* C24: enable_classifier, disable_classifier, enable_source and
\* disable_source called with a name that no entry of the registry has raise
\* KeyError and leave both registries as they were: length, order, names,
\* functions and enabled flags.
C24_UnknownNameRaises ==
    [][/\ (last'.op \in ClassifierFlagOps /\ last'.name \notin NamesOf(_CLASSIFIERS))
            => /\ last'.status = "KeyError"
               /\ _CLASSIFIERS' = _CLASSIFIERS /\ _SOURCES' = _SOURCES
       /\ (last'.op \in SourceFlagOps /\ last'.name \notin NamesOf(_SOURCES))
            => /\ last'.status = "KeyError"
               /\ _CLASSIFIERS' = _CLASSIFIERS /\ _SOURCES' = _SOURCES]_vars

\* disable_classifier raised KeyError on a registry that holds an enabled
\* entry under another name
C24_Witness ==
    /\ last.op = "disable_classifier"
    /\ last.status = "KeyError"
    /\ \E i \in DOMAIN _CLASSIFIERS :
        _CLASSIFIERS[i].name # last.name /\ _CLASSIFIERS[i].enabled

\* enable_source raised KeyError on the built-in sources
C24_WitnessSource ==
    /\ last.op = "enable_source"
    /\ last.status = "KeyError"
    /\ last.name \notin NamesOf(_SOURCES)
    /\ _SOURCES = BUILTIN_SOURCES

\* `after` is `before` with one more entry at the end, called `name`, with
\* the flag of the argument, enabled when the argument is omitted
Appended(before, after, name, enabled) ==
    /\ Len(after) = Len(before) + 1
    /\ \A i \in DOMAIN before : after[i] = before[i]
    /\ after[Len(after)].name = name
    /\ after[Len(after)].enabled = (enabled.none \/ enabled.value)

\* `after` differs from `before` at most in the flag of one entry called
\* `name`, which is `flag`
OneFlagSet(before, after, name, flag) ==
    /\ Len(after) = Len(before)
    /\ \A i \in DOMAIN before :
        after[i].name = before[i].name /\ after[i].fn = before[i].fn
    /\ \E k \in DOMAIN before :
        /\ before[k].name = name
        /\ after[k].enabled = flag
        /\ \A i \in DOMAIN before \ {k} : after[i].enabled = before[i].enabled

\* the (name, enabled) pairs of the registry, in the order of registration:
\* the functions of the entries are numbered as they were registered
ListsInOrder(reg, returned) ==
    /\ Len(returned) = Len(reg)
    /\ \A i \in DOMAIN reg : returned[i] = <<reg[i].name, reg[i].enabled>>
    /\ \A i \in DOMAIN reg, j \in DOMAIN reg : i < j => reg[i].fn < reg[j].fn

\* C25: register appends exactly one entry at the end of its registry, with
\* the given name and flag (enabled when the flag is omitted), and changes no
\* existing entry; an enable or disable that returns changes only the enabled
\* flag of one entry with the given name, leaving length, order, names,
\* functions and the other flags as they were; list changes nothing and
\* reports the entries in registration order.  The other registry is never
\* touched.
C25_RegistryFrame ==
    [][/\ last'.op = "register_classifier" =>
            /\ Appended(_CLASSIFIERS, _CLASSIFIERS', last'.name, last'.enabled)
            /\ _SOURCES' = _SOURCES
       /\ last'.op = "register_source" =>
            /\ Appended(_SOURCES, _SOURCES', last'.name, last'.enabled)
            /\ _CLASSIFIERS' = _CLASSIFIERS
       /\ (last'.op \in ClassifierFlagOps /\ last'.status = "returned") =>
            /\ OneFlagSet(_CLASSIFIERS, _CLASSIFIERS', last'.name,
                          last'.op = "enable_classifier")
            /\ _SOURCES' = _SOURCES
       /\ (last'.op \in SourceFlagOps /\ last'.status = "returned") =>
            /\ OneFlagSet(_SOURCES, _SOURCES', last'.name, last'.op = "enable_source")
            /\ _CLASSIFIERS' = _CLASSIFIERS
       /\ last'.op = "list_classifiers" =>
            /\ ListsInOrder(_CLASSIFIERS, last'.returned)
            /\ _CLASSIFIERS' = _CLASSIFIERS /\ _SOURCES' = _SOURCES
       /\ last'.op = "list_sources" =>
            /\ ListsInOrder(_SOURCES, last'.returned)
            /\ _CLASSIFIERS' = _CLASSIFIERS /\ _SOURCES' = _SOURCES]_vars

\* a second entry was registered without a flag behind a disabled one
C25_Witness ==
    /\ last.op = "register_classifier"
    /\ last.enabled = None
    /\ Len(_CLASSIFIERS) = 2
    /\ ~_CLASSIFIERS[1].enabled
    /\ _CLASSIFIERS[2].enabled

\* disable_source returned on a registry with another enabled entry
C25_WitnessDisable ==
    /\ last.op = "disable_source"
    /\ last.status = "returned"
    /\ \E i \in DOMAIN _SOURCES, j \in DOMAIN _SOURCES :
        /\ _SOURCES[i].name = last.name /\ ~_SOURCES[i].enabled
        /\ _SOURCES[j].name # last.name /\ _SOURCES[j].enabled

\* list_classifiers reported two entries
C25_WitnessList ==
    /\ last.op = "list_classifiers"
    /\ Len(last.returned) = 2
    /\ last.returned[1] # last.returned[2]

\* the call that has just returned is a disable_* that did not raise
DisableReturned(l) ==
    l.op \in {"disable_classifier", "disable_source"} /\ l.status = "returned"

\* the names of the registry entries the last router or fetcher call invoked
InvokedNames ==
    IF last.op \in RouterOps
    THEN {EntryOfFn(_CLASSIFIERS, last.invoked[k].fn).name :
            k \in {j \in DOMAIN last.invoked : last.invoked[j].kind = "plugin"}}
    ELSE IF last.op = "fetch_news_for_participant"
    THEN {EntryOfFn(_SOURCES, last.invoked[k]).name : k \in DOMAIN last.invoked}
    ELSE {}

\* after disable_*(name) has returned: no entry called `name` is enabled, the
\* list call that follows reports none, and the router or fetcher call that
\* follows invokes none
DisableComplete ==
    /\ (DisableReturned(last') /\ last'.op = "disable_classifier") =>
            \A i \in DOMAIN _CLASSIFIERS' :
                _CLASSIFIERS'[i].name = last'.name => ~_CLASSIFIERS'[i].enabled
    /\ (DisableReturned(last') /\ last'.op = "disable_source") =>
            \A i \in DOMAIN _SOURCES' :
                _SOURCES'[i].name = last'.name => ~_SOURCES'[i].enabled
    /\ (DisableReturned(last) /\ last.op = "disable_classifier"
            /\ last'.op = "list_classifiers") =>
            <<last.name, TRUE>> \notin Range(last'.returned)
    /\ (DisableReturned(last) /\ last.op = "disable_source"
            /\ last'.op = "list_sources") =>
            <<last.name, TRUE>> \notin Range(last'.returned)
    /\ (DisableReturned(last) /\ last.op = "disable_classifier"
            /\ last'.op \in RouterOps) =>
            last.name \notin InvokedNames'
    /\ (DisableReturned(last) /\ last.op = "disable_source"
            /\ last'.op = "fetch_news_for_participant") =>
            last.name \notin InvokedNames'

\* C29: after disable_classifier(name) or disable_source(name) has returned
\* normally, list reports no enabled entry called `name` and the router (or
\* the fetcher) invokes no entry registered under that name, whatever
\* register calls came before, the same name registered twice included.
C29_DisableByNameComplete == [][DisableComplete]_vars

\* no two entries of a registry have the same name
UniqueNames(reg) ==
    \A i \in DOMAIN reg, j \in DOMAIN reg : reg[i].name = reg[j].name => i = j

\* Supporting property: the statement for registries in which every name was
\* registered once.
DisableCompleteForUniqueNames ==
    [][(UniqueNames(_CLASSIFIERS) /\ UniqueNames(_SOURCES)) => DisableComplete]_vars

\* a router call that followed disable_classifier(name) invoked an entry
\* registered under that name
DisabledNameInvoked ==
    /\ last.op \in RouterOps
    /\ ~UniqueNames(_CLASSIFIERS)
    /\ \E i \in DOMAIN _CLASSIFIERS :
        /\ ~_CLASSIFIERS[i].enabled
        /\ _CLASSIFIERS[i].name \in InvokedNames

\* ------------------------------------------------------------------------
\* As-of reconstruction
\* ------------------------------------------------------------------------
\* the entries of `name` dated on or before d, in the order of the store
UpTo(history, name, d) == SelectSeq(EntriesOf(history, name), LAMBDA e : e.date <= d)

\* two stores hold the same entries dated on or before d for every
\* participant of the tracker
AgreeUpTo(h1, h2, tracker, d) ==
    \A i \in DOMAIN tracker.PARTICIPANTS :
        UpTo(h1, tracker.PARTICIPANTS[i].name, d) = UpTo(h2, tracker.PARTICIPANTS[i].name, d)

\* no participant of the tracker has an entry dated after d
NoEntryAfter(history, tracker, d) ==
    \A i \in DOMAIN tracker.PARTICIPANTS :
        UpTo(history, tracker.PARTICIPANTS[i].name, d)
            = EntriesOf(history, tracker.PARTICIPANTS[i].name)

\* a persisted file cut after day d
CutAfter(file, d) ==
    IF ~file.exists THEN file
    ELSE FileOf([name \in DOMAIN file.data |->
                    SelectSeq(file.data[name], LAMBDA e : e.date <= d)])

\* the stores the store of the state is compared with
ComparedFiles(d) == SignalFiles \cup {CutAfter(HISTORY_FILE, d)}

TotalWeight(tracker) ==
    SumSeq([i \in DOMAIN tracker.PARTICIPANTS |-> WeightOf(tracker, tracker.PARTICIPANTS[i])])

\* `signal`, a rounded value, is the role-weighted mean of the as-of scores
\* of day d (a mean exists when some weight is positive)
IsWeightedMeanAsOf(signal, history, tracker, score_key, d) ==
    TotalWeight(tracker) > 0 =>
        signal = Round3(Rat(SumSeq([i \in DOMAIN tracker.PARTICIPANTS |->
                                        AsOfScore(history, tracker.PARTICIPANTS[i],
                                                  score_key, d)
                                            * WeightOf(tracker, tracker.PARTICIPANTS[i])]),
                            TotalWeight(tracker)))

\* C26: the signal rebuilt for a cutoff day D (previous_signal of
\* compute_meeting_drift, signal_score of signal_vs_decisions) is the
\* role-weighted mean of each participant's latest entry dated on or before
\* D, or of the baseline lean without one; a store that agrees with the
\* store of the call on all entries dated on or before D gives the same
\* signal; and compute_meeting_drift reports "stable" when no participant has
\* an entry dated after the previous meeting.
C26_NoLookAhead ==
    /\ (last.op = "compute_meeting_drift" /\ last.returned # None) =>
        LET Holds(history, d) ==
                /\ IsWeightedMeanAsOf(last.returned.previous_signal, history,
                                      last.tracker, last.score_key, d)
                /\ \A other \in ComparedFiles(d) :
                    AgreeUpTo(load_history(other), history, last.tracker, d) =>
                        compute_meeting_drift(other, last.tracker, TodayDate,
                                              last.score_key).previous_signal
                            = last.returned.previous_signal
                /\ NoEntryAfter(history, last.tracker, d) =>
                        last.returned.drift_direction = "stable"
        IN  Holds(load_history(HISTORY_FILE), last.returned.previous_meeting_date)
    /\ last.op = "signal_vs_decisions" =>
        LET Holds(history) ==
                \A i \in DOMAIN last.returned :
                    /\ IsWeightedMeanAsOf(last.returned[i].signal_score, history,
                                          last.tracker, last.score_key,
                                          last.returned[i].meeting_date)
                    /\ \A other \in ComparedFiles(last.returned[i].meeting_date) :
                        AgreeUpTo(load_history(other), history, last.tracker,
                                  last.returned[i].meeting_date) =>
                            Round3(SignalAsOf(load_history(other), last.tracker,
                                              last.score_key,
                                              last.returned[i].meeting_date))
                                = last.returned[i].signal_score
        IN  Holds(load_history(HISTORY_FILE))

\* compute_meeting_drift on a store with entries after the previous meeting
\* that move the current signal: the store cut after the meeting is another
\* store, and the previous signal differs from the current one
C26_Witness ==
    /\ last.op = "compute_meeting_drift"
    /\ last.returned # None
    /\ CutAfter(HISTORY_FILE, last.returned.previous_meeting_date) # HISTORY_FILE
    /\ TotalWeight(last.tracker) > 0
    /\ last.returned.drift_direction = "hawkish shift"
    /\ last.returned.previous_signal # last.returned.current_signal

\* compute_meeting_drift on a store without an entry after the previous
\* meeting
C26_WitnessStable ==
    /\ last.op = "compute_meeting_drift"
    /\ last.returned # None
    /\ NoEntryAfter(load_history(HISTORY_FILE), last.tracker,
                    last.returned.previous_meeting_date)
    /\ last.returned.drift_direction = "stable"

\* signal_vs_decisions on a store with entries after a meeting it reports
C26_WitnessBacktest ==
    /\ last.op = "signal_vs_decisions"
    /\ Len(last.returned) > 0
    /\ CutAfter(HISTORY_FILE, last.returned[1].meeting_date) # HISTORY_FILE
    /\ last.returned[1].signal_score # 0

\* ------------------------------------------------------------------------
\* Backfill at load
\* ------------------------------------------------------------------------
DualFields == {"policy_score", "policy_label", "balance_sheet_score", "balance_sheet_label"}

\* the seed entries and the persisted entries of a participant
SourceEntries(name) ==
    (IF name \in DOMAIN SEED_DATA THEN Range(SEED_DATA[name]) ELSE {}) \cup
    (IF HISTORY_FILE.exists /\ name \in DOMAIN HISTORY_FILE.data
     THEN Range(HISTORY_FILE.data[name]) ELSE {})

\* e is src with the missing dual-dimension fields filled in
BackfillOf(e, src) ==
    /\ DOMAIN e = DOMAIN src \cup DualFields
    /\ \A k \in DOMAIN src : e[k] = src[k]
    /\ ("policy_score" \notin DOMAIN src /\ "score" \in DOMAIN src) =>
            /\ e.policy_score = src.score
            /\ e.policy_label = LabelOf(FromMilli(src.score))
    /\ "balance_sheet_score" \notin DOMAIN src =>
            /\ e.balance_sheet_score = 0
            /\ e.balance_sheet_label = "Neutral"

C28_WitnessPartial ==
    /\ last.op = "load_history"
    /\ \E name \in DOMAIN last.returned :
        \E e1, e2 \in Range(last.returned[name]), s1, s2 \in SourceEntries(name) :
            /\ DOMAIN s1 \cap DualFields = {"policy_score", "policy_label"}
            /\ s1.policy_score # s1.score
            /\ BackfillOf(e1, s1)
            /\ DOMAIN s2 \cap DualFields = {"balance_sheet_score", "balance_sheet_label"}
            /\ BackfillOf(e2, s2)

\* ------------------------------------------------------------------------
\* Direction of the implied action
\* ------------------------------------------------------------------------
\* the order easing < neutral < tightening
DirectionRank == ("easing" :> 0) @@ ("neutral" :> 1) @@ ("tightening" :> 2)

IsImpliedAction(l) == l.op = "implied_rate_action"

\* of two consecutive calls the one with the lower score has the lower or
\* the same direction
DirectionMonotone ==
    (IsImpliedAction(last) /\ IsImpliedAction(last')
        /\ ScoreLeq(last.weighted_score, last'.weighted_score)) =>
        DirectionRank[last.returned.direction] <= DirectionRank[last'.returned.direction]

\* C30: for every numeric score, inside [-5, 5] or not, the direction of
\* implied_rate_action is monotone in the score in the order easing <
\* neutral < tightening; a score below -5 gives an easing action and a score
\* of 5 or more gives the top tightening row.
C30_DirectionMonotone ==
    [][/\ DirectionMonotone
       /\ (IsImpliedAction(last') /\ ~ScoreLeq(FromMilli(SCORE_MIN), last'.weighted_score))
            => last'.returned.direction = "easing"
       /\ (IsImpliedAction(last') /\ ScoreLeq(FromMilli(SCORE_MAX), last'.weighted_score))
            => /\ last'.returned.direction = "tightening"
               /\ last'.returned.action = _ACTION_THRESHOLDS[Len(_ACTION_THRESHOLDS)].label]_vars

\* Supporting property: the direction is monotone over the scores of -5 and
\* more, and a score of 5 or more gives the top tightening row.
DirectionMonotoneFromLowerEdge ==
    [][/\ (IsImpliedAction(last) /\ IsImpliedAction(last')
            /\ ScoreLeq(FromMilli(SCORE_MIN), last.weighted_score)
            /\ ScoreLeq(FromMilli(SCORE_MIN), last'.weighted_score)) => DirectionMonotone
       /\ (IsImpliedAction(last') /\ ScoreLeq(FromMilli(SCORE_MAX), last'.weighted_score))
            => /\ last'.returned.direction = "tightening"
               /\ last'.returned.action = _ACTION_THRESHOLDS[Len(_ACTION_THRESHOLDS)].label]_vars

\* a score below -5 got the neutral action
BelowRangeIsHold ==
    /\ IsImpliedAction(last)
    /\ last.weighted_score = FromMilli(-5001)
    /\ last.returned.direction = "neutral"
    /\ last.returned.action = "Hold"
====
